---- MODULE Spec2Model ----
(***************************************************************************)
(* State-machine model of the bbackup backup engine (content-addressed    *)
(* object store, snapshot catalog, streaming snapshot writer, engine run) *)
(* and of the backup controller (App) that starts, pauses, stops, resumes *)
(* and restarts engine runs.                                               *)
(***************************************************************************)
EXTENDS Integers, Sequences, FiniteSets, TLC

VARIABLES
    clock,        \* time.Now().Unix()
    srcFiles,     \* the source tree: relative path -> [bytes, mtime, readable]
    objects,      \* <dest>/objects: hash -> [bytes, complete]
    snaps,        \* <dest>/snapshots: file name -> file content
    stateFile,    \* <dest>/.backup_state.json: <<>> or <<BackupState>>
    eng,          \* run task -> locals of runBackupWithResume / RunBackupWithBatchConfig
    ctxDone,      \* run task -> the run's context has been cancelled
    backupState,  \* App.backupState: <<>> (nil) or <<BackupState>>
    backupCancel, \* App.backupCancel: 0 (nil) or the run whose context it cancels
    mutex,        \* App.backupMutex: "free", or who holds the write lock for good
    eventQueue,   \* App.eventQueue and what became of the events: queued, delivered, dropped
    ctl,          \* bookkeeping of the controller: calls that got the mutex, tasks spawned, probe done,
                  \* and the state the UI got from its last call if that was GetBackupState
    hist,         \* bookkeeping of the environment: runs started, events so far, last good manifest
    last          \* the command the UI has just called and what came of it, until the next step

vars == <<clock, srcFiles, objects, snaps, stateFile, eng, ctxDone,
          backupState, backupCancel, mutex, eventQueue, ctl, hist, last>>

-----------------------------------------------------------------------------
(* Bounds *)

StartTime  == 1700000000   \* the Unix time at which the model starts
MaxRuns    == 2            \* run tasks (goroutines) that may be spawned
MaxEvents  == 1            \* things that happen around a run: a second passes, a source file changes
MaxCmds    == 2            \* calls of controller commands that get hold of the mutex

Runs     == 1..MaxRuns
Paths    == {"a.txt", "b.txt"}
Contents == {<<1>>, <<1, 2>>}
sourcePaths == <<"/src">>

\* DefaultBatchConfig().BatchSize, scaled to the model: RunBackup flushes the writer
\* after every BatchSize files
BatchSize == 1
\* the batch sizes of the configs that callers of RunBackupWithBatchConfig pass, scaled
BatchSizes == {1, 2}

-----------------------------------------------------------------------------
(* Pure functions *)

RECURSIVE Digits(_)
\* fmt.Sprintf("%d", n): the decimal digits of n
Digits(n) == IF n < 10 THEN <<n>> ELSE Append(Digits(n \div 10), n % 10)

\* the value of a digit sequence of length 2 or 4
Num2(s, i) == s[i] * 10 + s[i + 1]
Num4(s, i) == s[i] * 1000 + s[i + 1] * 100 + s[i + 2] * 10 + s[i + 3]

Pad2(n) == <<n \div 10, n % 10>>
Pad4(n) == <<n \div 1000, (n \div 100) % 10, (n \div 10) % 10, n % 10>>

IsLeap(y) == (y % 4 = 0 /\ y % 100 # 0) \/ y % 400 = 0
DaysIn(y, m) ==
    IF m = 2 THEN (IF IsLeap(y) THEN 29 ELSE 28)
    ELSE IF m \in {4, 6, 9, 11} THEN 30 ELSE 31

\* the calendar date of a day number counted from 1970-01-01
CivilFromDays(days) ==
    LET z   == days + 719468
        era == z \div 146097
        doe == z - era * 146097
        yoe == (doe - doe \div 1460 + doe \div 36524 - doe \div 146096) \div 365
        doy == doe - (365 * yoe + yoe \div 4 - yoe \div 100)
        mp  == (5 * doy + 2) \div 153
        d   == doy - (153 * mp + 2) \div 5 + 1
        m   == IF mp < 10 THEN mp + 3 ELSE mp - 9
        y   == yoe + era * 400 + (IF m <= 2 THEN 1 ELSE 0)
    IN  <<y, m, d>>

\* time.Time.Format("20060102150405") of a Unix time: 14 digits
Format14(t) ==
    LET ymd == CivilFromDays(t \div 86400)
        rem == t % 86400
    IN  Pad4(ymd[1]) \o Pad2(ymd[2]) \o Pad2(ymd[3]) \o
        Pad2(rem \div 3600) \o Pad2((rem % 3600) \div 60) \o Pad2(rem % 60)

\* time.Parse("20060102150405", id) succeeds: exactly 14 digits, every field in range
ParseOK(id) ==
    /\ Len(id) = 14
    /\ Num2(id, 5) \in 1..12
    /\ Num2(id, 7) \in 1..DaysIn(Num4(id, 1), Num2(id, 5))
    /\ Num2(id, 9) \in 0..23
    /\ Num2(id, 11) \in 0..59
    /\ Num2(id, 13) \in 0..59

\* the parsed time as a tuple, and Time.After on such tuples
ParseTime(id) == <<Num4(id, 1), Num2(id, 5), Num2(id, 7), Num2(id, 9), Num2(id, 11), Num2(id, 13)>>

RECURSIVE TupleAfter(_, _, _)
TupleAfter(a, b, i) ==
    IF i > Len(a) THEN FALSE
    ELSE IF a[i] # b[i] THEN a[i] > b[i]
    ELSE TupleAfter(a, b, i + 1)

After(a, b) == TupleAfter(a, b, 1)

\* sha256 + hex.EncodeToString: equal bytes give equal hashes, different bytes different ones
SHA256(bytes) == <<"sha256">> \o bytes

\* snapshot.go snapshotFilePath and the ".tmp" sibling used by the writers
JsonName(id) == [id |-> id, ext |-> "json"]
TmpName(id)  == [id |-> id, ext |-> "json.tmp"]

\* json.MarshalIndent of a Snapshot: the complete manifest
Manifest(id, files) == [kind |-> "manifest", id |-> id, files |-> files]

\* what a flushed bufio.Writer has put on disk: the header line and the entry lines
Lines(id, n) == [kind |-> "lines", id |-> id, files |-> <<>>, n |-> n]

\* a snapshot file whose content json.Unmarshal rejects
Corrupt(id) == [kind |-> "corrupt", id |-> id, files |-> <<>>]

\* the set of file names of snapshots/ that end in ".json"
JsonNames(dir) == {n \in DOMAIN dir : n.ext = "json"}

\* LoadLatestSnapshot taking the first name that parses in ascending order of names
LoadOldestSnapshot(dir) ==
    LET valid == {n \in JsonNames(dir) : ParseOK(n.id)}
    IN  IF valid = {} THEN [err |-> FALSE, snap |-> <<>>]
        ELSE LET win == CHOOSE n \in valid :
                            \A m \in valid : ~After(ParseTime(n.id), ParseTime(m.id))
             IN  IF dir[win].kind = "manifest"
                 THEN [err |-> FALSE, snap |-> <<[id |-> dir[win].id, files |-> dir[win].files]>>]
                 ELSE [err |-> TRUE, snap |-> <<>>]

\* LoadLatestSnapshot: <<>> when there is no snapshot with a parseable name,
\* else the snapshot whose parsed time is maximal; err when the winner is not JSON
LoadLatestSnapshot(dir) ==
    LET valid == {n \in JsonNames(dir) : ParseOK(n.id)}
    IN  IF valid = {} THEN [err |-> FALSE, snap |-> <<>>]
        ELSE LET win == CHOOSE n \in valid :
                            \A m \in valid : ~After(ParseTime(m.id), ParseTime(n.id))
             IN  IF dir[win].kind = "manifest"
                 THEN [err |-> FALSE, snap |-> <<[id |-> dir[win].id, files |-> dir[win].files]>>]
                 ELSE [err |-> TRUE, snap |-> <<>>]

\* SaveSnapshot: the manifest is written to <id>.json.tmp and renamed to <id>.json;
\* an empty ID is replaced by the formatted timestamp
SaveSnapshot(dir, id, t, files) ==
    LET sid == IF id = <<>> THEN Format14(t) ELSE id
    IN  [n \in (DOMAIN dir \cup {JsonName(sid)}) \ {TmpName(sid)} |->
            IF n = JsonName(sid) THEN Manifest(sid, files) ELSE dir[n]]

\* a store that takes the object to be present whenever its directory is
ObjectExistsDirOnly(objs, h) == TRUE

\* os.Stat(objectPath) succeeded: the object is present in the store
ObjectExists(objs, h) == h \in DOMAIN objs

\* the FileEntry the walk builds for a file from its DirEntry info
Entry(p, f, h) == [path |-> p, hash |-> h, size |-> Len(f.bytes), mtime |-> f.mtime]

\* the check with the mod time left out
UnchangedSizeOnly(latest, entry) ==
    /\ latest # <<>>
    /\ entry.path \in DOMAIN latest[1].files
    /\ latest[1].files[entry.path].size = entry.size

\* the rsync-like check: the previous snapshot has the path with equal size and mod time
Unchanged(latest, entry) ==
    /\ latest # <<>>
    /\ entry.path \in DOMAIN latest[1].files
    /\ latest[1].files[entry.path].size = entry.size
    /\ latest[1].files[entry.path].mtime = entry.mtime

\* err == context.Canceled, as the engine and the controller test it
IsCanceled(err) == err = "Canceled"

-----------------------------------------------------------------------------
(* The ignore matcher and the walk. The matcher works on the characters of a  *)
(* path, so paths, names and patterns are sequences of one-character strings. *)

\* strings.HasPrefix, strings.HasSuffix, strings.Contains
HasPrefix(s, pre) == Len(pre) <= Len(s) /\ SubSeq(s, 1, Len(pre)) = pre
HasSuffix(s, suf) == Len(suf) <= Len(s) /\ SubSeq(s, Len(s) - Len(suf) + 1, Len(s)) = suf
Contains(s, sub) == \E i \in 0..(Len(s) - Len(sub)) : SubSeq(s, i + 1, i + Len(sub)) = sub

RECURSIVE Split(_)
\* strings.Split(s, "/")
Split(s) ==
    IF \A i \in 1..Len(s) : s[i] # "/" THEN <<s>>
    ELSE LET i == CHOOSE j \in 1..Len(s) : s[j] = "/" /\ \A k \in 1..(j - 1) : s[k] # "/"
         IN  <<SubSeq(s, 1, i - 1)>> \o Split(SubSeq(s, i + 1, Len(s)))

RECURSIVE Match(_, _)
\* filepath.Match for patterns made of literal characters, '?' and '*': the pattern has to
\* match the whole name, and neither '?' nor '*' matches a '/'
Match(pattern, name) ==
    IF pattern = <<>> THEN name = <<>>
    ELSE IF Head(pattern) = "*"
    THEN \E n \in 0..Len(name) :
            /\ \A i \in 1..n : name[i] # "/"
            /\ Match(Tail(pattern), SubSeq(name, n + 1, Len(name)))
    ELSE IF name = <<>> THEN FALSE
    ELSE IF Head(pattern) = "?" THEN Head(name) # "/" /\ Match(Tail(pattern), Tail(name))
    ELSE Head(pattern) = Head(name) /\ Match(Tail(pattern), Tail(name))

\* shouldIgnorePattern (part_001:61-133), rule by rule; filepath.ToSlash changes nothing
\* where the separator is '/'
shouldIgnorePattern(fullPath, fileName, pattern) ==
    \/ pattern # <<>> /\ Head(pattern) = "/" /\ fullPath = pattern
    \/ /\ HasSuffix(pattern, <<"/">>)
       /\ \/ fullPath = SubSeq(pattern, 1, Len(pattern) - 1)
          \/ HasPrefix(fullPath, pattern)
    \/ Match(pattern, fileName)
    \/ \E i \in DOMAIN Split(fullPath) : Match(pattern, Split(fullPath)[i])
    \/ Match(pattern, fullPath)
    \/ /\ Contains(pattern, <<"/">>)
       /\ \/ Match(pattern \o <<"/", "*">>, fullPath)
          \/ Match(<<"*", "/">> \o pattern, fullPath)
          \/ Match(<<"*">> \o pattern \o <<"*">>, fullPath)
    \/ Contains(fullPath, pattern)
    \/ Match(<<"*">> \o pattern, fullPath)
    \/ Match(pattern \o <<"*">>, fullPath)
    \/ Match(<<"*">> \o pattern \o <<"*">>, fullPath)

\* shouldIgnore (part_001:28-41): some pattern that is not empty matches
shouldIgnore(path, name, ignorePatterns) ==
    \E i \in DOMAIN ignorePatterns :
        ignorePatterns[i] # <<>> /\ shouldIgnorePattern(path, name, ignorePatterns[i])

\* the name of the source root and of the directory in it
SrcName     == <<"s", "r", "c">>
NodeModules == <<"n", "o", "d", "e", "_", "m", "o", "d", "u", "l", "e", "s">>

\* filepath.Abs(sourcePath) of the one source root, "/src"
absSourcePath == <<"/">> \o SrcName

\* the entries filepath.WalkDir may meet under the root, in its (lexical) order; rel is the
\* path relative to the root, the key of a file in srcFiles and in a manifest
Tree == <<
    [rel |-> ".", dir |-> TRUE, comps |-> <<>>],
    [rel |-> "a.txt", dir |-> FALSE, comps |-> <<<<"a", ".", "t", "x", "t">>>>],
    [rel |-> "b.txt", dir |-> FALSE, comps |-> <<<<"b", ".", "t", "x", "t">>>>],
    [rel |-> "backup", dir |-> TRUE, comps |-> <<<<"b", "a", "c", "k", "u", "p">>>>],
    [rel |-> "backup/old.txt", dir |-> FALSE,
     comps |-> <<<<"b", "a", "c", "k", "u", "p">>, <<"o", "l", "d", ".", "t", "x", "t">>>>],
    [rel |-> "node_modules", dir |-> TRUE, comps |-> <<NodeModules>>],
    [rel |-> "node_modules/lib", dir |-> TRUE, comps |-> <<NodeModules, <<"l", "i", "b">>>>],
    [rel |-> "node_modules/lib/y.js", dir |-> FALSE,
     comps |-> <<NodeModules, <<"l", "i", "b">>, <<"y", ".", "j", "s">>>>],
    [rel |-> "node_modules/x.js", dir |-> FALSE,
     comps |-> <<NodeModules, <<"x", ".", "j", "s">>>>] >>

Entries == {Tree[i] : i \in DOMAIN Tree}

RECURSIVE JoinPath(_, _)
\* filepath.Join(base, comps...)
JoinPath(base, comps) ==
    IF comps = <<>> THEN base ELSE JoinPath(base \o <<"/">> \o Head(comps), Tail(comps))

\* the path and the d.Name() the walk callback gets for an entry
PathOf(x) == JoinPath(absSourcePath, x.comps)
NameOf(x) == IF x.comps = <<>> THEN SrcName ELSE x.comps[Len(x.comps)]

\* entry y lies below the directory x
Below(y, x) ==
    /\ x.dir
    /\ Len(x.comps) < Len(y.comps)
    /\ SubSeq(y.comps, 1, Len(x.comps)) = x.comps

\* the entry is on disk: a file of the source tree, or a directory with a file below it
Exists(x) ==
    IF x.dir THEN x.comps = <<>> \/ \E y \in Entries : ~y.dir /\ y.rel \in DOMAIN srcFiles /\ Below(y, x)
    ELSE x.rel \in DOMAIN srcFiles

\* the matcher excludes the entry (part_001:284)
Ignored(x, ignorePatterns) == shouldIgnore(PathOf(x), NameOf(x), ignorePatterns)

\* the callback returns nil for an ignored directory, so that WalkDir goes on below it
CalledNoSkipDir(x, ignorePatterns) == Exists(x)

\* WalkDir calls the callback for the entry: it is on disk and the callback returned
\* filepath.SkipDir for none of the directories above it (part_001:284-290)
Called(x, ignorePatterns) ==
    /\ Exists(x)
    /\ \A y \in Entries : Below(x, y) => ~Ignored(y, ignorePatterns)

\* the files that get past the ignore logic, the exclusion of the destination
\* (strings.HasPrefix(path, casBaseDir), which holds of everything below a directory it
\* holds of) and the directory check (part_001:283-305), in the order of the walk, by their
\* relative paths
WalkOrder(ignorePatterns, casBaseDir) ==
    LET sel == SelectSeq(Tree, LAMBDA x : /\ ~x.dir
                                          /\ Called(x, ignorePatterns)
                                          /\ ~Ignored(x, ignorePatterns)
                                          /\ ~HasPrefix(PathOf(x), casBaseDir))
    IN  [i \in 1..Len(sel) |-> sel[i].rel]

-----------------------------------------------------------------------------
(* The engine: RunBackupWithBatchConfig, one step per stretch of code between *)
(* two observable points (a context check, a file-system call, a progress call) *)

Prog0 == [total |-> 0, processed |-> 0, cur |-> "", bytes |-> 0, status |-> ""]

\* the locals of a run task that has not been spawned
IdleEng ==
    [pc |-> "idle", cb |-> "nil", cbpc |-> "idle", cbArg |-> Prog0, cbCopy |-> <<>>,
     by |-> "none", cfg |-> "none", batch |-> BatchSize, out |-> "none", hit |-> "none", dropped |-> FALSE,
     err |-> "none", latest |-> <<>>,
     wopen |-> FALSE, wclosed |-> FALSE, wfclosed |-> FALSE, wid |-> <<>>,
     wfiles |-> <<>>, wbuf |-> 0, wdisk |-> 0,
     i |-> 0, k |-> 0, fileCount |-> 0, batchCount |-> 0, prog |-> Prog0,
     ent |-> <<>>, hash |-> <<>>, changed |-> FALSE,
     ign |-> <<>>, cas |-> <<"/", "d", "s", "t">>, loadErr |-> FALSE, added |-> <<>>, stored |-> {}, readp |-> {}, reads |-> 0, created |-> 0, before |-> {}, base |-> <<>>, dirty |-> FALSE,
     recorded |-> FALSE,
     flushInterval |-> 60, lastFlushTime |-> 0, memHigh |-> FALSE,
     chunks |-> 0, nread |-> 0, written |-> 0, rdAfter |-> 0, wrAfter |-> 0,
     nprog |-> 0, goEmit |-> {}, roots |-> Len(sourcePaths),
     dcfg |-> [CASBaseDir |-> <<>>, UseHardLinks |-> FALSE, IgnorePatterns |-> {}],
     target |-> <<>>, todo |-> {}, opened |-> <<>>]

\* the files of a second source root, which a caller with two source paths passes: the
\* same relative paths, sizes and mod times as under the first root, other bytes
SecondRoot == [p \in Paths |-> [bytes |-> IF p = "a.txt" THEN <<3>> ELSE <<4>>,
                                mtime |-> StartTime - 7200, readable |-> TRUE]]

\* the file at path p relative to the source root that the run is walking
\* (filepath.Rel(absSourcePath, path), part_001:308-317)
FileAt(e, p) == IF e.i = 2 THEN SecondRoot[p] ELSE srcFiles[p]

fsVars  == <<objects, snaps>>
ctlVars == <<backupState, backupCancel, mutex, eventQueue, ctl, stateFile>>
envVars == <<clock, srcFiles, hist>>

\* the engine of run r is at pc and is not inside its progress callback
Ready(r, pc) == eng[r].pc = pc /\ eng[r].cbpc = "idle"

\* no command is being called
NoCall == [cmd |-> "none", res |-> "none", was |-> "nil"]

\* a step of task r
Set(r, e) == eng' = [eng EXCEPT ![r] = e] /\ last' = NoCall

\* updateProgress(): calls the progress callback, if there is one, with a copy of currentProgress
\* (a callback "ui" is progressCb as the UI sees it while the status is running: every
\* report starts a goroutine that will emit it, app.go:521-539; nprog numbers the reports)
UpdateProgress(e) ==
    IF e.cb = "ctl" THEN [e EXCEPT !.cbpc = "check", !.cbArg = e.prog]
    ELSE IF e.cb = "ui"
    THEN [e EXCEPT !.nprog = @ + 1,
                   !.goEmit = @ \cup {[n |-> e.nprog + 1, status |-> e.prog.status,
                                       processed |-> e.prog.processed, total |-> e.prog.total]}]
    ELSE e

\* a context check that found the context cancelled: status Cancelled, updateProgress, return ctx.Err()
Cancelled(e, next) ==
    UpdateProgress([e EXCEPT !.err = "Canceled", !.prog.status = "Cancelled", !.pc = next])

\* an error that is wrapped with fmt.Errorf and returned: status Failed, updateProgress
Failed(e, err, next) ==
    UpdateProgress([e EXCEPT !.err = err, !.prog.status = "Failed", !.pc = next])

\* part_001:150-151
EngStart(r) ==
    /\ Ready(r, "start")
    /\ Set(r, UpdateProgress([eng[r] EXCEPT !.pc = "chk_init", !.prog.status = "Initializing",
                                             !.before = JsonNames(snaps)]))
    /\ UNCHANGED <<fsVars, ctlVars, envVars, ctxDone>>

\* part_001:160-172
EngChkInit(r) ==
    /\ Ready(r, "chk_init")
    /\ IF ctxDone[r]
       THEN Set(r, Cancelled(eng[r], "ret"))
       ELSE Set(r, UpdateProgress([eng[r] EXCEPT !.pc = "load", !.prog.status = "Loading"]))
    /\ UNCHANGED <<fsVars, ctlVars, envVars, ctxDone>>

\* NewStreamingSnapshotWriter: os.Create of <id>.json.tmp (truncating it); the header
\* is encoded into the bufio.Writer, nothing is on disk yet
NewStreamingSnapshotWriter(dir, id) ==
    [n \in DOMAIN dir \cup {TmpName(id)} |-> IF n = TmpName(id) THEN Lines(id, 0) ELSE dir[n]]

\* EngLoad with a failure of LoadLatestSnapshot returned as the run's error
EngLoadFatal(r) ==
    /\ Ready(r, "load")
    /\ LET res == LoadLatestSnapshot(snaps)
           id  == Digits(clock)
           e1  == [eng[r] EXCEPT !.latest = res.snap, !.wid = id, !.wopen = TRUE,
                                 !.pc = "src", !.i = 1]
       IN  IF res.err
           THEN /\ Set(r, Failed([eng[r] EXCEPT !.loadErr = TRUE], "wrapped(load)", "ret"))
                /\ UNCHANGED snaps
           ELSE /\ snaps' = NewStreamingSnapshotWriter(snaps, id)
                /\ Set(r, e1)
    /\ UNCHANGED <<objects, ctlVars, envVars, ctxDone>>

\* part_001:175-194: load the latest snapshot, make the snapshot id, open the writer, defer Close
EngLoad(r) ==
    /\ Ready(r, "load")
    /\ LET res == LoadLatestSnapshot(snaps)
           id  == Digits(clock)
           e1  == [eng[r] EXCEPT !.latest = res.snap, !.wid = id, !.wopen = TRUE,
                                 !.loadErr = res.err, !.pc = "src", !.i = 1,
                                 !.lastFlushTime = clock]
       IN  /\ snaps' = NewStreamingSnapshotWriter(snaps, id)
           /\ Set(r, IF res.err
                     THEN UpdateProgress([e1 EXCEPT !.prog.status = "Warning"])
                     ELSE e1)
    /\ UNCHANGED <<objects, ctlVars, envVars, ctxDone>>

\* part_001:206-229: next source path, context check, "Scanning"
EngSrc(r) ==
    /\ Ready(r, "src")
    /\ IF eng[r].i > eng[r].roots
       THEN Set(r, [eng[r] EXCEPT !.pc = "fin_chk"])
       ELSE IF ctxDone[r]
       THEN Set(r, Cancelled(eng[r], "ret"))
       ELSE Set(r, UpdateProgress([eng[r] EXCEPT !.pc = "walk", !.k = 1, !.prog.status = "Scanning"]))
    /\ UNCHANGED <<fsVars, ctlVars, envVars, ctxDone>>

\* part_001:233-332: the WalkDir callback up to "Processing file". The memory check of
\* lines 261-273 (made when fileCount is a multiple of 100; here at every file) forces a
\* garbage collection when memStats.Alloc is over the limit, and changes nothing else.
EngWalk(r) ==
    /\ Ready(r, "walk")
    /\ LET e == eng[r] IN
       IF e.k > Len(WalkOrder(e.ign, e.cas))
       THEN Set(r, [e EXCEPT !.pc = "src", !.i = e.i + 1])
       ELSE IF ctxDone[r]
       THEN Set(r, Cancelled(e, "walkerr"))
       ELSE LET p == WalkOrder(e.ign, e.cas)[e.k] IN
            Set(r, UpdateProgress([e EXCEPT
                !.pc = "cmp",
                !.ent = <<Entry(p, FileAt(e, p), <<>>)>>,
                !.fileCount = e.fileCount + 1,
                !.prog.total = e.fileCount + 1,
                !.prog.processed = e.prog.processed + 1,
                !.prog.cur = p,
                !.prog.status = "Processing file"]))
    /\ UNCHANGED <<fsVars, ctlVars, envVars, ctxDone>>

\* part_001:334-374 and 412-416: context check, comparison with the latest snapshot
EngCmp(r) ==
    /\ Ready(r, "cmp")
    /\ LET e == eng[r]
           p == e.ent[1].path
           same == Unchanged(e.latest, e.ent[1])
       IN  IF ctxDone[r]
           THEN Set(r, Cancelled(e, "walkerr"))
           ELSE IF same
           THEN Set(r, UpdateProgress([e EXCEPT
                    !.pc = "add", !.changed = FALSE,
                    !.hash = e.latest[1].files[p].hash,
                    !.prog.status = "unchanged",
                    !.prog.processed = e.prog.processed - 1]))
           ELSE Set(r, UpdateProgress([e EXCEPT
                    !.pc = "store_open", !.changed = TRUE, !.prog.status = "changed"]))
    /\ UNCHANGED <<fsVars, ctlVars, envVars, ctxDone>>

\* part_001:376-387 and StoreFileContentWithContext, os.Open (memory_test.go:358-362)
EngStoreOpen(r) ==
    /\ Ready(r, "store_open")
    /\ LET e == eng[r] IN
       IF ctxDone[r]
       THEN Set(r, Cancelled(e, "walkerr"))
       ELSE IF ~FileAt(e, e.ent[1].path).readable
       THEN Set(r, Failed([e EXCEPT !.stored = @ \cup {e.ent[1].path}], "wrapped(open)", "walkerr"))
       ELSE Set(r, [e EXCEPT !.pc = "hash", !.stored = @ \cup {e.ent[1].path}])
    /\ UNCHANGED <<fsVars, ctlVars, envVars, ctxDone>>

\* StoreFileContentWithContext, the hashing pass (memory_test.go:364-368): copyWithContext
\* returns ctx.Err() when it finds the context cancelled, and the caller wraps it with fmt.Errorf
EngHash(r) ==
    /\ Ready(r, "hash")
    /\ LET e == eng[r] IN
       IF ctxDone[r]
       THEN Set(r, Failed(e, "wrapped(Canceled)", "walkerr"))
       ELSE Set(r, [e EXCEPT !.pc = "store_stat", !.reads = e.reads + 1,
                             !.readp = @ \cup {e.ent[1].path},
                             !.hash = SHA256(FileAt(e, e.ent[1].path).bytes)])
    /\ UNCHANGED <<fsVars, ctlVars, envVars, ctxDone>>

\* EngStoreStat without the os.Stat of the object path
EngStoreStatBlind(r) ==
    /\ Ready(r, "store_stat")
    /\ LET e == eng[r] IN
       IF ctxDone[r]
       THEN Set(r, Cancelled(e, "walkerr"))
       ELSE Set(r, [e EXCEPT !.pc = "store_create"])
    /\ UNCHANGED <<fsVars, ctlVars, envVars, ctxDone>>

\* memory_test.go:370-390: context check, MkdirAll, os.Stat of the object path
EngStoreStat(r) ==
    /\ Ready(r, "store_stat")
    /\ LET e == eng[r] IN
       IF ctxDone[r]
       THEN Set(r, Cancelled(e, "walkerr"))
       ELSE IF ObjectExists(objects, e.hash)
       THEN Set(r, [e EXCEPT !.pc = "post_store"])
       ELSE Set(r, [e EXCEPT !.pc = "store_create"])
    /\ UNCHANGED <<fsVars, ctlVars, envVars, ctxDone>>

\* memory_test.go:392-409: context check, Seek, os.Create of the object file
EngStoreCreate(r) ==
    /\ Ready(r, "store_create")
    /\ LET e == eng[r] IN
       IF ctxDone[r]
       THEN /\ Set(r, Cancelled(e, "walkerr"))
            /\ UNCHANGED objects
       ELSE /\ Set(r, [e EXCEPT !.pc = "copy", !.created = e.created + 1])
            /\ objects' = [h \in DOMAIN objects \cup {e.hash} |->
                              IF h = e.hash THEN [bytes |-> <<>>, complete |-> FALSE]
                              ELSE objects[h]]
    /\ UNCHANGED <<snaps, ctlVars, envVars, ctxDone>>

\* memory_test.go:411-415: the copy pass; a cancelled copy leaves the object file behind
EngCopy(r) ==
    /\ Ready(r, "copy")
    /\ LET e == eng[r] IN
       IF ctxDone[r]
       THEN /\ Set(r, Failed(e, "wrapped(Canceled)", "walkerr"))
            /\ UNCHANGED objects
       ELSE /\ Set(r, [e EXCEPT !.pc = "post_store", !.reads = e.reads + 1])
            /\ objects' = [objects EXCEPT ![e.hash] =
                              [bytes |-> FileAt(e, e.ent[1].path).bytes, complete |-> TRUE]]
    /\ UNCHANGED <<snaps, ctlVars, envVars, ctxDone>>

\* part_001:400-411: context check after file storage
EngPostStore(r) ==
    /\ Ready(r, "post_store")
    /\ IF ctxDone[r]
       THEN Set(r, Cancelled(eng[r], "walkerr"))
       ELSE Set(r, [eng[r] EXCEPT !.pc = "add"])
    /\ UNCHANGED <<fsVars, ctlVars, envVars, ctxDone>>

\* StreamingSnapshotWriter.AddFile: the entry goes into header.Files and, as a line, into the buffer
AddFile(e, entry) ==
    [e EXCEPT !.wfiles = (entry.path :> entry) @@ e.wfiles, !.wbuf = e.wbuf + 1]

\* part_001:417-431: AddFile, batchCount++, flush when the batch is full or the time is up
EngAdd(r) ==
    /\ Ready(r, "add")
    /\ LET e  == eng[r]
           e1 == AddFile(e, [e.ent[1] EXCEPT !.hash = e.hash])
       IN  Set(r, [e1 EXCEPT !.batchCount = e.batchCount + 1,
                             !.pc = IF \/ e.batchCount + 1 >= e.batch
                                       \/ clock - e.lastFlushTime >= e.flushInterval
                                    THEN "flush_chk" ELSE "tail"])
    /\ UNCHANGED <<fsVars, ctlVars, envVars, ctxDone>>

\* bufio.Writer.Flush on the writer's file: the buffered lines reach the file the writer
\* has open. That is the file os.Create opened as <id>.json.tmp; when a writer of the same
\* id has renamed it since, it is the file now named <id>.json, and the lines land in the
\* middle of that writer's manifest. A file that was removed takes the lines unseen.
Flush(dir, e) ==
    IF TmpName(e.wid) \in DOMAIN dir /\ dir[TmpName(e.wid)].kind = "lines"
    THEN [dir EXCEPT ![TmpName(e.wid)] = Lines(e.wid, e.wdisk + e.wbuf)]
    ELSE IF TmpName(e.wid) \notin DOMAIN dir /\ JsonName(e.wid) \in DOMAIN dir /\ e.wbuf > 0
    THEN [dir EXCEPT ![JsonName(e.wid)] = Corrupt(e.wid)]
    ELSE dir

\* part_001:432-454: context check, Flush, batchCount = 0
EngFlush(r) ==
    /\ Ready(r, "flush_chk")
    /\ LET e == eng[r] IN
       IF ctxDone[r]
       THEN /\ Set(r, Cancelled(e, "walkerr"))
            /\ UNCHANGED snaps
       ELSE /\ Set(r, [e EXCEPT !.pc = "flush_chk2", !.batchCount = 0,
                                !.lastFlushTime = clock,
                                !.wdisk = e.wdisk + e.wbuf, !.wbuf = 0])
            /\ snaps' = Flush(snaps, e)
    /\ UNCHANGED <<objects, ctlVars, envVars, ctxDone>>

\* part_001:456-466: context check after the flush
EngFlushed(r) ==
    /\ Ready(r, "flush_chk2")
    /\ IF ctxDone[r]
       THEN Set(r, Cancelled(eng[r], "walkerr"))
       ELSE Set(r, [eng[r] EXCEPT !.pc = "tail"])
    /\ UNCHANGED <<fsVars, ctlVars, envVars, ctxDone>>

\* part_001:468-474: bytes are counted for changed files only; next entry
EngTail(r) ==
    /\ Ready(r, "tail")
    /\ LET e == eng[r] IN
       Set(r, UpdateProgress([e EXCEPT
            !.pc = "walk", !.k = e.k + 1,
            !.prog.bytes = IF e.changed THEN e.prog.bytes + e.ent[1].size ELSE e.prog.bytes]))
    /\ UNCHANGED <<fsVars, ctlVars, envVars, ctxDone>>

\* part_001:476-487: WalkDir returned the callback's error
EngWalkErr(r) ==
    /\ Ready(r, "walkerr")
    /\ LET e == eng[r] IN
       IF IsCanceled(e.err)
       THEN Set(r, Cancelled(e, "ret"))
       ELSE Set(r, Failed(e, e.err, "ret"))
    /\ UNCHANGED <<fsVars, ctlVars, envVars, ctxDone>>

\* part_001:490-524: context checks, final flush, "Finalizing snapshot..."
EngFinal(r) ==
    /\ Ready(r, "fin_chk")
    /\ LET e == eng[r] IN
       IF ctxDone[r]
       THEN /\ Set(r, Cancelled(e, "ret"))
            /\ UNCHANGED snaps
       ELSE /\ Set(r, UpdateProgress([e EXCEPT
                    !.pc = "close_chk", !.prog.status = "Finalizing",
                    !.wdisk = IF e.batchCount > 0 THEN e.wdisk + e.wbuf ELSE e.wdisk,
                    !.wbuf = IF e.batchCount > 0 THEN 0 ELSE e.wbuf]))
            /\ snaps' = IF e.batchCount > 0 THEN Flush(snaps, e) ELSE snaps
    /\ UNCHANGED <<objects, ctlVars, envVars, ctxDone>>

\* StreamingSnapshotWriter.Close: no-op when closed; else flush, rewrite the file with the
\* complete manifest, close it and rename <id>.json.tmp to <id>.json. The result is the
\* directory and the writer afterwards, and whether Close returned an error. When the
\* .tmp name is gone the rename fails after the open file was rewritten: a file that a
\* writer of the same id has renamed to <id>.json now holds this writer's manifest.
Close(dir, e) ==
    IF e.wclosed THEN [dir |-> dir, e |-> e, err |-> FALSE]
    ELSE IF e.wfclosed THEN [dir |-> dir, e |-> e, err |-> TRUE]
    ELSE IF TmpName(e.wid) \notin DOMAIN dir
    THEN [dir |-> IF JsonName(e.wid) \in DOMAIN dir
                  THEN [dir EXCEPT ![JsonName(e.wid)] = Manifest(e.wid, e.wfiles)]
                  ELSE dir,
          e   |-> [e EXCEPT !.wfclosed = TRUE, !.wbuf = 0], err |-> TRUE]
    ELSE [dir |-> [n \in (DOMAIN dir \cup {JsonName(e.wid)}) \ {TmpName(e.wid)} |->
                      IF n = JsonName(e.wid) THEN Manifest(e.wid, e.wfiles) ELSE dir[n]],
          e   |-> [e EXCEPT !.wfclosed = TRUE, !.wclosed = TRUE, !.wbuf = 0],
          err |-> FALSE]

\* part_001:526-556: context check, Close, "Completed"
EngClose(r) ==
    /\ Ready(r, "close_chk")
    /\ LET e == eng[r]
           c == Close(snaps, e)
       IN  IF ctxDone[r]
           THEN /\ Set(r, Cancelled(e, "ret"))
                /\ UNCHANGED snaps
           ELSE /\ snaps' = c.dir
                /\ IF c.err
                   THEN Set(r, Failed(c.e, "wrapped(close)", "ret"))
                   ELSE Set(r, UpdateProgress([c.e EXCEPT !.pc = "ret", !.err = "nil",
                                                          !.prog.status = "Completed"]))
    /\ UNCHANGED <<objects, ctlVars, envVars, ctxDone>>

\* part_001:194: the deferred snapshotWriter.Close() runs on every return after the writer
\* was opened; then RunBackupWithBatchConfig returns err
EngReturn(r) ==
    /\ Ready(r, "ret")
    /\ LET e == eng[r]
           c == IF e.wopen THEN Close(snaps, e) ELSE [dir |-> snaps, e |-> e, err |-> FALSE]
       IN  /\ snaps' = c.dir
           /\ Set(r, [c.e EXCEPT !.pc = IF e.cb = "ctl" THEN "r_final" ELSE "done",
                                 !.lastFlushTime = 0])
           /\ hist' = IF e.err = "nil"
                      THEN [hist EXCEPT !.good = IF e.dirty THEN <<>> ELSE <<e.wfiles>>]
                      ELSE hist
    /\ UNCHANGED <<objects, ctlVars, clock, srcFiles, ctxDone>>

EngStep(r) ==
    \/ EngStart(r) \/ EngChkInit(r) \/ EngLoad(r) \/ EngSrc(r) \/ EngWalk(r) \/ EngCmp(r)
    \/ EngStoreOpen(r) \/ EngHash(r) \/ EngStoreStat(r) \/ EngStoreCreate(r) \/ EngCopy(r)
    \/ EngPostStore(r) \/ EngAdd(r) \/ EngFlush(r) \/ EngFlushed(r) \/ EngTail(r)
    \/ EngWalkErr(r) \/ EngFinal(r) \/ EngClose(r) \/ EngReturn(r)

-----------------------------------------------------------------------------
(* The environment of an engine run: the caller, the clock, the source tree *)

MaxDirect == 2             \* engine runs a direct caller makes one after the other

\* a run is between the call of the engine and its return
Active(r) == eng[r].pc \notin {"idle", "done", "r_enter", "r_validate", "r_ctx",
                               "r_final", "r_dead", "r_defer", "r_end"}

\* a caller (as memory_test.go:123-130) runs the engine with a context of its own and no
\* progress callback, once the previous run has returned
DirectRun ==
    /\ \A r \in Runs : eng[r].pc \in {"idle", "done"}
    /\ hist.runs < MaxDirect
    /\ \E b \in BatchSizes :
        eng' = [eng EXCEPT ![1] = [IdleEng EXCEPT !.pc = "start", !.base = hist.good, !.batch = b]]
    /\ ctxDone' = [ctxDone EXCEPT ![1] = FALSE]
    /\ hist' = [hist EXCEPT !.runs = hist.runs + 1]
    /\ UNCHANGED <<fsVars, ctlVars, clock, srcFiles, last>>

\* the caller cancels the context of the run
CancelCtx ==
    /\ \E r \in Runs :
        /\ Active(r) /\ eng[r].cb # "ctl" /\ ~ctxDone[r]
        /\ ctxDone' = [ctxDone EXCEPT ![r] = TRUE]
    /\ UNCHANGED <<fsVars, ctlVars, envVars, eng, last>>

\* a second passes
Tick ==
    /\ hist.events < MaxEvents
    /\ clock' = clock + 1
    /\ hist' = [hist EXCEPT !.events = hist.events + 1]
    /\ UNCHANGED <<fsVars, ctlVars, srcFiles, eng, ctxDone, last>>

\* the sources are no longer what a running engine, or the last good run, saw
Touched == 
    /\ hist' = [hist EXCEPT !.events = hist.events + 1, !.good = <<>>]
    /\ eng' = [r \in Runs |-> IF Active(r) THEN [eng[r] EXCEPT !.dirty = TRUE] ELSE eng[r]]

\* somebody writes new bytes to a source file
Touch ==
    /\ hist.events < MaxEvents
    /\ \E p \in DOMAIN srcFiles : \E c \in Contents \ {srcFiles[p].bytes} :
        srcFiles' = [srcFiles EXCEPT ![p] = [@ EXCEPT !.bytes = c, !.mtime = clock]]
    /\ Touched
    /\ UNCHANGED <<fsVars, ctlVars, clock, ctxDone, last>>

\* somebody takes away the permission to read a source file
Chmod ==
    /\ hist.events < MaxEvents
    /\ \E p \in DOMAIN srcFiles :
        /\ srcFiles[p].readable
        /\ srcFiles' = [srcFiles EXCEPT ![p] = [@ EXCEPT !.readable = FALSE]]
    /\ Touched
    /\ UNCHANGED <<fsVars, ctlVars, clock, ctxDone, last>>

\* the source tree at the start
SrcInit == [p \in Paths |-> [bytes |-> IF p = "a.txt" THEN <<1>> ELSE <<2>>,
                             mtime |-> StartTime - 7200, readable |-> TRUE]]

EmptyDir == [n \in {} |-> 0]

\* the destination after an earlier complete backup of the source tree, whose manifest
\* was written by SaveSnapshot an hour before the start
EarlierFiles == [p \in Paths |-> Entry(p, SrcInit[p], SHA256(SrcInit[p].bytes))]
EarlierObjects == [h \in {SHA256(SrcInit[p].bytes) : p \in Paths} |->
                      [bytes |-> Tail(h), complete |-> TRUE]]

\* the same destination with the manifest damaged on disk
EarlierCorrupt ==
    LET dir == SaveSnapshot(EmptyDir, <<>>, StartTime - 3600, EarlierFiles)
    IN  [n \in DOMAIN dir |-> Corrupt(n.id)]

\* capacity of App.eventQueue (make(chan eventMessage, 1000), app.go:58), scaled down
QueueSize == 4

\* eventMessage{name, data}
Event(name, data) == [name |-> name, data |-> data]

\* the events queued, those delivered by the emitter goroutine, and those dropped
NoEvents == [q |-> <<>>, seen |-> {}, lost |-> {}]

\* a queue that makes room for a new event by dropping the oldest one
emitEventEvict(eq, ev) ==
    IF Len(eq.q) < QueueSize THEN [eq EXCEPT !.q = Append(@, ev)]
    ELSE [eq EXCEPT !.q = Append(Tail(@), ev), !.lost = @ \cup {eq.q[1]}]

\* emitEvent: a send on the channel that takes the default branch when the queue is full
emitEvent(eq, ev) ==
    IF Len(eq.q) < QueueSize THEN [eq EXCEPT !.q = Append(@, ev)]
    ELSE [eq EXCEPT !.lost = @ \cup {ev}]

CtlInit ==
    /\ backupState = <<>>
    /\ backupCancel = 0
    /\ mutex = "free"
    /\ ctl = [cmds |-> 0, spawned |-> 0, probed |-> FALSE, got |-> <<>>]
    /\ eventQueue = NoEvents
    /\ last = NoCall

\* an engine called directly on a destination that is empty or holds an earlier backup,
\* whose manifest may be damaged
InitEngine ==
    /\ clock = StartTime
    /\ srcFiles = SrcInit
    /\ \/ objects = EmptyDir /\ snaps = EmptyDir
       \/ objects = EarlierObjects
          /\ snaps = SaveSnapshot(EmptyDir, <<>>, StartTime - 3600, EarlierFiles)
       \/ objects = EarlierObjects
          /\ snaps = EarlierCorrupt
    /\ stateFile = <<>>
    /\ eng = [r \in Runs |-> IdleEng]
    /\ ctxDone = [r \in Runs |-> FALSE]
    /\ CtlInit
    /\ hist = [runs |-> 0, events |-> 0, good |-> <<>>]

NextEngine ==
    \/ DirectRun \/ CancelCtx \/ Tick \/ Touch \/ Chmod
    \/ \E r \in Runs : EngStep(r)

SpecEngine == InitEngine /\ [][NextEngine]_vars

-----------------------------------------------------------------------------
(* The controller (App): its commands, the task that runs the engine, and the *)
(* progress callback the engine calls into. backupMutex is "free" or carries  *)
(* the name of the goroutine that holds it and will never release it; every   *)
(* other critical section is one step.                                        *)


\* the configs the UI sends: a good one, and one without a destination
GoodConfig   == [DestinationPath |-> "/dst", SourcePaths |-> sourcePaths]
NoDestConfig == [DestinationPath |-> "", SourcePaths |-> sourcePaths]
Configs      == {GoodConfig, NoDestConfig}

\* os.MkdirAll of the destination succeeds when nothing read-only is above it
MkdirAll(path) == path # "/readonly/dst"

\* the validation of runBackupWithResume: a destination, a source, a directory
Validate(cfg) ==
    /\ cfg.DestinationPath # ""
    /\ Len(cfg.SourcePaths) # 0
    /\ MkdirAll(cfg.DestinationPath)

\* json.MarshalIndent of a BackupState: the document with the fields' json names
MarshalState(s) ==
    [id |-> s.ID, status |-> s.Status, progress |-> s.Progress, config |-> s.Config,
     processedFiles |-> s.ProcessedFiles, currentFile |-> s.CurrentFile]

\* json.Unmarshal of a state document into a BackupState
UnmarshalState(d) ==
    [ID |-> d.id, Status |-> d.status, Progress |-> d.progress, Config |-> d.config,
     ProcessedFiles |-> d.processedFiles, CurrentFile |-> d.currentFile]

\* loadBackupState: nil when there is no file, else the state the file holds
loadBackupState(file) == IF file = <<>> THEN <<>> ELSE <<UnmarshalState(file[1])>>

\* the BackupState that StartBackup makes
NewState(cfg) ==
    [ID |-> clock, Status |-> "running", Progress |-> Prog0, Config |-> cfg,
     ProcessedFiles |-> {}, CurrentFile |-> ""]

\* the status of the backup state, "nil" when there is none
Status == IF backupState = <<>> THEN "nil" ELSE backupState[1].Status

\* the call of cmd came to res, having found the status that `was' records
Call(cmd, res) == last' = [cmd |-> cmd, res |-> res, was |-> Status]

\* the call got the mutex and ended
Did(cmd, res) ==
    /\ ctl.cmds < MaxCmds
    /\ Call(cmd, res)
    /\ ctl' = [ctl EXCEPT !.cmds = ctl.cmds + 1, !.got = <<>>]

\* the call took effect and started a run task
DidSpawn(cmd, res) ==
    /\ ctl.cmds < MaxCmds
    /\ ctl.spawned < MaxRuns
    /\ Call(cmd, res)
    /\ ctl' = [ctl EXCEPT !.cmds = ctl.cmds + 1, !.spawned = ctl.spawned + 1, !.got = <<>>]

\* go a.runBackupWithResume(config, resume) in the next free task
Spawn(by, cfg) ==
    [eng EXCEPT ![ctl.spawned + 1] =
        [IdleEng EXCEPT !.pc = "r_enter", !.cb = "ctl", !.by = by, !.cfg = cfg]]

\* a.backupCancel() called by cmd: the context of the run that stored it is done; the
\* run is marked when the cancellation reaches it before its result is determined
CancelBy(e, cmd) ==
    [r \in Runs |-> IF r = backupCancel /\ e[r].err = "none" /\ e[r].hit = "none"
                    THEN [e[r] EXCEPT !.hit = cmd] ELSE e[r]]

\* checkAndRestoreInterruptedBackups, started by startup in a goroutine of its own. Of the
\* events of the controller, only those of this probe are followed here.
Probe ==
    /\ mutex = "free"
    /\ ~ctl.probed
    /\ LET state == loadBackupState(stateFile) IN
       IF state # <<>>
       THEN /\ backupState' = state
            /\ ctl' = [ctl EXCEPT !.probed = TRUE, !.got = <<>>]
            /\ eventQueue' = emitEvent(emitEvent(emitEvent(emitEvent(eventQueue,
                                 Event("app:log", "Found interrupted backup")),
                                 Event("app:backup:resumable", "Interrupted backup found")),
                                 Event("app:backup:status", state[1].Status)),
                                 Event("app:backup:progress", "progress"))
       ELSE /\ ctl' = [ctl EXCEPT !.probed = TRUE]
            /\ UNCHANGED <<backupState, eventQueue>>
    /\ last' = NoCall
    /\ UNCHANGED <<fsVars, envVars, eng, ctxDone, backupCancel, mutex, stateFile>>

\* StartBackup without the check of lines 332-338
StartBackupUnchecked ==
    /\ mutex = "free"
    /\ DidSpawn("start", "started")
    /\ \E cfg \in Configs :
        /\ backupState' = <<NewState(cfg)>>
        /\ eng' = Spawn("start", cfg)
    /\ UNCHANGED <<fsVars, envVars, eventQueue, ctxDone, backupCancel, mutex, stateFile>>

\* StartBackup
StartBackup ==
    /\ mutex = "free"
    /\ IF Status \in {"running", "paused"}
       THEN /\ Did("start", "Already Running")
            /\ UNCHANGED <<backupState, eng>>
       ELSE /\ DidSpawn("start", "started")
            /\ \E cfg \in Configs :
                /\ backupState' = <<NewState(cfg)>>
                /\ eng' = Spawn("start", cfg)
    /\ UNCHANGED <<fsVars, envVars, eventQueue, ctxDone, backupCancel, mutex, stateFile>>

\* PauseBackup. Calling the nil backupCancel panics, and saveBackupState takes the read
\* lock of the mutex PauseBackup holds: either way the mutex is never released.
PauseBackup ==
    /\ mutex = "free"
    /\ IF Status = "nil"
       THEN /\ Did("pause", "no backup operation in progress")
            /\ UNCHANGED <<backupState, eng, ctxDone, mutex>>
       ELSE IF Status # "running"
       THEN /\ Did("pause", "backup is not running")
            /\ UNCHANGED <<backupState, eng, ctxDone, mutex>>
       ELSE IF backupCancel = 0
       THEN /\ Did("pause", "panic")
            /\ mutex' = "PauseBackup"
            /\ UNCHANGED <<backupState, eng, ctxDone>>
       ELSE /\ ctxDone' = [ctxDone EXCEPT ![backupCancel] = TRUE]
            /\ eng' = CancelBy(eng, "pause")
            /\ backupState' = <<[backupState[1] EXCEPT !.Status = "paused"]>>
            /\ Did("pause", "blocked in saveBackupState")
            /\ mutex' = "PauseBackup"
    /\ UNCHANGED <<fsVars, envVars, eventQueue, backupCancel, stateFile>>

\* StopBackup
StopBackup ==
    /\ mutex = "free"
    /\ IF Status = "nil" \/ backupCancel = 0
       THEN /\ Did("stop", "no backup operation in progress")
            /\ UNCHANGED <<backupState, eng, ctxDone, mutex>>
       ELSE IF Status # "running"
       THEN /\ Did("stop", "backup is not running")
            /\ UNCHANGED <<backupState, eng, ctxDone, mutex>>
       ELSE /\ ctxDone' = [ctxDone EXCEPT ![backupCancel] = TRUE]
            /\ eng' = CancelBy(eng, "stop")
            /\ backupState' = <<[backupState[1] EXCEPT !.Status = "stopped"]>>
            /\ Did("stop", "blocked in saveBackupState")
            /\ mutex' = "StopBackup"
    /\ UNCHANGED <<fsVars, envVars, eventQueue, backupCancel, stateFile>>

\* ResumeBackup
ResumeBackup ==
    /\ mutex = "free"
    /\ IF Status = "nil"
       THEN /\ Did("resume", "no backup state available to resume")
            /\ UNCHANGED eng
       ELSE IF Status \notin {"paused", "stopped"}
       THEN /\ Did("resume", "backup cannot be resumed")
            /\ UNCHANGED eng
       ELSE /\ DidSpawn("resume", "nil")
            /\ eng' = Spawn("resume", backupState[1].Config)
    /\ UNCHANGED <<fsVars, envVars, eventQueue, ctxDone, backupState, backupCancel, mutex, stateFile>>

\* RestartBackup
RestartBackup ==
    /\ mutex = "free"
    /\ DidSpawn("restart", "nil")
    /\ \E cfg \in Configs :
        eng' = [CancelBy(eng, "restart") EXCEPT ![ctl.spawned + 1] =
                   [IdleEng EXCEPT !.pc = "r_enter", !.cb = "ctl", !.by = "restart", !.cfg = cfg]]
    /\ ctxDone' = IF backupCancel # 0 THEN [ctxDone EXCEPT ![backupCancel] = TRUE] ELSE ctxDone
    /\ backupState' = <<>>
    /\ UNCHANGED <<fsVars, envVars, eventQueue, backupCancel, mutex, stateFile>>

\* a command called while the mutex is held for good blocks in backupMutex.Lock()
CallBlocked ==
    /\ mutex # "free"
    /\ \E cmd \in {"start", "pause", "stop", "resume", "restart"} :
        Call(cmd, "blocked in Lock")
    /\ UNCHANGED <<fsVars, envVars, ctlVars, eng, ctxDone>>

\* runBackupWithResume up to the check that there is a backup state (app.go:389-424)
RunEnter(r) ==
    /\ mutex = "free"
    /\ eng[r].pc = "r_enter"
    /\ IF backupState = <<>>
       THEN Set(r, [eng[r] EXCEPT !.pc = "r_end", !.out = "state not initialized"])
       ELSE Set(r, [eng[r] EXCEPT !.pc = "r_validate"])
    /\ UNCHANGED <<fsVars, envVars, ctlVars, ctxDone>>

\* validation of the config and creation of the destination (app.go:429-472); the
\* returns here come before the cancel function is stored and the cleanup is deferred
RunValidate(r) ==
    /\ eng[r].pc = "r_validate"
    /\ IF Validate(eng[r].cfg)
       THEN Set(r, [eng[r] EXCEPT !.pc = "r_ctx"])
       ELSE Set(r, [eng[r] EXCEPT !.pc = "r_end", !.out = "invalid"])
    /\ UNCHANGED <<fsVars, envVars, ctlVars, ctxDone>>

\* the cancel function of the run's context is stored, the engine is called (app.go:474-562)
RunCtx(r) ==
    /\ mutex = "free"
    /\ eng[r].pc = "r_ctx"
    /\ backupCancel' = r
    /\ Set(r, [eng[r] EXCEPT !.pc = "start"])
    /\ UNCHANGED <<fsVars, envVars, eventQueue, ctxDone, backupState, mutex, ctl, stateFile>>

\* progressCb: the status check under the read lock (app.go:497-506)
CbCheck(r) ==
    /\ mutex = "free"
    /\ eng[r].cbpc = "check"
    /\ IF Status \in {"paused", "stopped"}
       THEN Set(r, [eng[r] EXCEPT !.cbpc = "idle", !.dropped = TRUE])
       ELSE Set(r, [eng[r] EXCEPT !.cbpc = "update"])
    /\ UNCHANGED <<fsVars, envVars, ctlVars, ctxDone>>

\* progressCb: the progress is recorded in the backup state (app.go:509-519)
CbUpdate(r) ==
    /\ mutex = "free"
    /\ eng[r].cbpc = "update"
    /\ LET p == eng[r].cbArg IN
       IF backupState # <<>>
       THEN /\ backupState' = <<[backupState[1] EXCEPT
                   !.Progress = p,
                   !.CurrentFile = IF p.cur # "" THEN p.cur ELSE @,
                   !.ProcessedFiles = IF p.cur # "" THEN @ \cup {p.cur} ELSE @]>>
            /\ Set(r, [eng[r] EXCEPT !.cbpc = "copy", !.recorded = TRUE])
       ELSE /\ Set(r, [eng[r] EXCEPT !.cbpc = "copy"])
            /\ UNCHANGED backupState
    /\ UNCHANGED <<fsVars, envVars, eventQueue, ctxDone, backupCancel, mutex, ctl, stateFile>>

\* progressCb: a copy of the backup state is taken under the lock (app.go:542-549)
CbCopy(r) ==
    /\ mutex = "free"
    /\ eng[r].cbpc = "copy"
    /\ Set(r, [eng[r] EXCEPT !.cbCopy = backupState,
                             !.cbpc = IF backupState # <<>> THEN "write" ELSE "idle"])
    /\ UNCHANGED <<fsVars, envVars, ctlVars, ctxDone>>

\* progressCb: the copy is written to the state file outside the lock (app.go:552-558)
CbWrite(r) ==
    /\ eng[r].cbpc = "write"
    /\ stateFile' = <<MarshalState(eng[r].cbCopy[1])>>
    /\ Set(r, [eng[r] EXCEPT !.cbpc = "idle", !.cbCopy = <<>>])
    /\ UNCHANGED <<fsVars, envVars, eventQueue, ctxDone, backupState, backupCancel, mutex, ctl>>

\* the final update after the engine returned (app.go:565-595): with a backup state it
\* ends in saveBackupState, which takes the read lock of the mutex this task holds
RunFinal(r) ==
    /\ mutex = "free"
    /\ eng[r].pc = "r_final"
    /\ LET err == eng[r].err IN
       IF backupState # <<>>
       THEN /\ backupState' = <<[backupState[1] EXCEPT !.Status =
                   IF err = "nil" THEN "completed"
                   ELSE IF IsCanceled(err) THEN @ ELSE "failed"]>>
            /\ stateFile' = IF err = "nil" THEN <<>> ELSE stateFile
            /\ mutex' = "runBackupWithResume"
            /\ Set(r, [eng[r] EXCEPT !.pc = "r_dead"])
       ELSE /\ Set(r, [eng[r] EXCEPT !.pc = "r_defer"])
            /\ UNCHANGED <<backupState, stateFile, mutex>>
    /\ UNCHANGED <<fsVars, envVars, eventQueue, ctxDone, backupCancel, ctl>>

\* the deferred cleanup of the cancel function (app.go:486-491)
RunDefer(r) ==
    /\ mutex = "free"
    /\ eng[r].pc = "r_defer"
    /\ backupCancel' = 0
    /\ Set(r, [eng[r] EXCEPT !.pc = "r_end", !.out = "returned"])
    /\ UNCHANGED <<fsVars, envVars, eventQueue, ctxDone, backupState, mutex, ctl, stateFile>>

RunStep(r) ==
    \/ RunEnter(r) \/ RunValidate(r) \/ RunCtx(r)
    \/ CbCheck(r) \/ CbUpdate(r) \/ CbCopy(r) \/ CbWrite(r)
    \/ RunFinal(r) \/ RunDefer(r)

\* a state file left by a backup that had come to its end
LeftStateFileCompleted ==
    MarshalState([ID |-> StartTime - 3600, Status |-> "completed", Progress |-> Prog0, Config |-> GoodConfig,
                  ProcessedFiles |-> {}, CurrentFile |-> ""])

\* the state file that a session killed during a backup has left in the destination: the
\* progress callback is the only writer that gets as far as writing, and it writes while
\* the status is running
LeftStateFile ==
    MarshalState([ID |-> StartTime - 3600, Status |-> "running", Progress |-> Prog0, Config |-> GoodConfig,
                  ProcessedFiles |-> {}, CurrentFile |-> ""])

\* the application after startup: no backup state, a source tree of one file, an empty
\* destination or one with a state file in it. The commands and runs that follow take
\* place within one second of the clock.
Init ==
    /\ clock = StartTime
    /\ srcFiles = [p \in {"a.txt"} |-> SrcInit[p]]
    /\ objects = EmptyDir /\ snaps = EmptyDir
    /\ stateFile \in {<<>>, <<LeftStateFile>>}
    /\ eng = [r \in Runs |-> IdleEng]
    /\ ctxDone = [r \in Runs |-> FALSE]
    /\ CtlInit
    /\ hist = [runs |-> 0, events |-> 0, good |-> <<>>]

Next ==
    \/ Probe \/ StartBackup \/ PauseBackup \/ StopBackup \/ ResumeBackup \/ RestartBackup
    \/ CallBlocked
    \/ \E r \in Runs : RunStep(r) \/ EngStep(r)

Spec == Init /\ [][Next]_vars

-----------------------------------------------------------------------------
(* Claims about the engine, checked under SpecEngine *)

\* the engine run r has returned
Returned(r) == eng[r].pc = "done"

\* C1: a run that ended because of cancellation or a fatal error has left no
\* snapshots/<id>.json that did not exist before the run
C1_NoManifestAfterCancelOrError ==
    \A r \in Runs :
        (Returned(r) /\ eng[r].err # "nil") => JsonNames(snaps) \subseteq eng[r].before

\* C3: a successful run over sources untouched since the previous successful run publishes
\* a manifest with the previous run's hashes, creates no object, reads no file content and
\* transfers no bytes
C3_UnchangedSecondRun ==
    \A r \in Runs :
        (Returned(r) /\ eng[r].err = "nil" /\ eng[r].base # <<>> /\ ~eng[r].dirty) =>
            /\ JsonName(eng[r].wid) \in DOMAIN snaps
            /\ DOMAIN snaps[JsonName(eng[r].wid)].files = DOMAIN eng[r].base[1]
            /\ \A p \in DOMAIN eng[r].base[1] :
                  snaps[JsonName(eng[r].wid)].files[p].hash = eng[r].base[1][p].hash
            /\ eng[r].created = 0
            /\ eng[r].reads = 0
            /\ eng[r].prog.bytes = 0

\* C4: after a run returned without error, LoadLatestSnapshot returns the manifest the run
\* published, whose id parses as YYYYMMDDhhmmss, with an entry for each file backed up
C4_LatestIsThisRun ==
    \A r \in Runs :
        (Returned(r) /\ eng[r].err = "nil") =>
            LET res == LoadLatestSnapshot(snaps) IN
            /\ ~res.err
            /\ res.snap # <<>>
            /\ ParseOK(eng[r].wid)
            /\ res.snap[1].id = eng[r].wid
            /\ DOMAIN res.snap[1].files = DOMAIN eng[r].wfiles

\* C5: every hash of every manifest published at snapshots/<id>.json names an object
\* that exists under objects/
C5_ManifestHashesExist ==
    \A n \in JsonNames(snaps) :
        snaps[n].kind = "manifest" =>
            \A p \in DOMAIN snaps[n].files : snaps[n].files[p].hash \in DOMAIN objects

\* C5 happens: a run that carried one entry forward and stored another has published
C5_Witness ==
    \E r \in Runs :
        /\ Returned(r) /\ eng[r].created > 0
        /\ JsonName(eng[r].wid) \in DOMAIN snaps
        /\ DOMAIN snaps[JsonName(eng[r].wid)].files = Paths
        /\ \E p \in Paths : eng[r].latest # <<>> /\
              snaps[JsonName(eng[r].wid)].files[p].hash = eng[r].latest[1].files[p].hash

-----------------------------------------------------------------------------
(* Claims about the controller, checked under Spec *)

\* C2: when pause or stop has cancelled a running engine, the engine's result is Canceled
\* and the status is the one the command set: paused after pause, stopped after stop
C2_CancelReturnsCanceled ==
    \A r \in Runs :
        (eng[r].hit \in {"pause", "stop"} /\ eng[r].err # "none") =>
            /\ IsCanceled(eng[r].err)
            /\ Status = IF eng[r].hit = "pause" THEN "paused" ELSE "stopped"

\* C6: at most one engine run is active at any time
C6_OneActiveRun == Cardinality({r \in Runs : Active(r)}) <= 1

\* C7: a pause called while the status is running has cancelled the run, set the status to
\* paused, written the state file with that status and released the mutex
C7_PauseSucceeds ==
    (last.cmd = "pause" /\ last.was = "running") =>
        /\ mutex = "free"
        /\ Status = "paused"
        /\ stateFile # <<>> /\ stateFile[1].status = "paused"
        /\ \E r \in Runs : ctxDone[r]

\* C8: a stop called while the status is paused leaves the status stopped
C8_StopWhilePaused ==
    (last.cmd = "stop" /\ last.was = "paused") => Status = "stopped"

\* C9: a resume called while the status is paused or stopped leaves the status running with
\* a new run task spawned, and no run that a resume spawned has had a progress update dropped
C9_ResumeRuns ==
    /\ (last.cmd = "resume" /\ last.was \in {"paused", "stopped"}) =>
            /\ Status = "running"
            /\ \E r \in Runs : eng[r].by = "resume" /\ eng[r].pc = "r_enter"
    /\ \A r \in Runs : eng[r].by = "resume" => ~eng[r].dropped

\* C10: the run task that a restart with a good config spawned does not end without having
\* run the engine, and when it calls the engine the backup state is there with status running
C10_RestartRuns ==
    \A r \in Runs :
        (eng[r].by = "restart" /\ eng[r].cfg = GoodConfig) =>
            /\ eng[r].pc = "r_end" => eng[r].out = "returned"
            /\ eng[r].pc = "start" => Status = "running"

\* C11: a start called while the status is running or paused changes neither the backup
\* state nor any run task nor the stored cancel function, and spawns no task
C11_StartRejected ==
    [][(last'.cmd = "start" /\ last'.was \in {"running", "paused"}) =>
            /\ backupState' = backupState
            /\ eng' = eng
            /\ ctxDone' = ctxDone
            /\ backupCancel' = backupCancel
            /\ ctl'.spawned = ctl.spawned]_vars

\* C11 happens: start has been refused while an engine run is active
C11_Witness ==
    /\ last.cmd = "start" /\ last.was = "running" /\ last.res = "Already Running"
    /\ \E r \in Runs : Active(r)

\* the task q has not called the engine
NeverRan(q) ==
    \/ eng[q].pc \in {"idle", "r_enter", "r_validate", "r_ctx"}
    \/ eng[q].pc = "r_end" /\ eng[q].out # "returned"

\* C12: once the task of an engine run that returned without error has ended, and no other
\* task has run the engine, there is no state file in the destination
C12_NoStateFileAfterSuccess ==
    \A r \in Runs :
        (eng[r].pc = "r_end" /\ eng[r].err = "nil" /\ \A q \in Runs \ {r} : NeverRan(q)) =>
            stateFile = <<>>

\* the task r waits for the mutex that is held for good
Stuck(r) ==
    /\ mutex # "free"
    /\ \/ eng[r].cbpc \in {"check", "update", "copy"}
       \/ eng[r].pc \in {"r_enter", "r_ctx", "r_final", "r_defer"}

\* C13: once a pause (a stop) has cancelled a run and the run's task has ended or can go no
\* further, the state file is there with status paused (stopped)
C13_PersistedStatus ==
    \A r \in Runs :
        (eng[r].hit \in {"pause", "stop"} /\ (eng[r].pc = "r_end" \/ Stuck(r))) =>
            /\ stateFile # <<>>
            /\ stateFile[1].status = IF eng[r].hit = "pause" THEN "paused" ELSE "stopped"

-----------------------------------------------------------------------------
(* More claims about the engine, checked under SpecEngine *)

\* C14: a source file that cannot be opened does not end the run: the run returns without
\* error and has published its manifest
C14_ReadErrorNotFatal ==
    \A r \in Runs :
        (Returned(r) /\ ~ctxDone[r] /\ \E p \in DOMAIN srcFiles : ~srcFiles[p].readable) =>
            /\ eng[r].err = "nil"
            /\ JsonName(eng[r].wid) \in DOMAIN snaps
            /\ snaps[JsonName(eng[r].wid)].kind = "manifest"

RECURSIVE SumSizes(_, _)
\* the sizes of the entries of files whose paths are in S, added up
SumSizes(files, S) ==
    IF S = {} THEN 0
    ELSE LET p == CHOOSE q \in S : TRUE
         IN  files[p].size + SumSizes(files, S \ {p})

\* the entry of path p that run r added to its writer stands in the snapshot the run loaded,
\* with the same size and the same mod time
InLatest(r, p) ==
    /\ eng[r].latest # <<>>
    /\ p \in DOMAIN eng[r].latest[1].files
    /\ eng[r].latest[1].files[p].size = eng[r].wfiles[p].size
    /\ eng[r].latest[1].files[p].mtime = eng[r].wfiles[p].mtime

\* C16: of the files a run has added to its writer, those found in the loaded snapshot with
\* equal size and mod time, and only those, carry the previous hash and were neither passed to
\* the object store nor read; all the others were passed to the store and read, and between
\* two files bytes_transferred is the sum of the sizes of exactly these others
C16_CarryForwardIff ==
    \A r \in Runs :
        /\ \A p \in DOMAIN eng[r].wfiles :
              IF InLatest(r, p)
              THEN /\ eng[r].wfiles[p].hash = eng[r].latest[1].files[p].hash
                   /\ p \notin eng[r].stored /\ p \notin eng[r].readp
              ELSE /\ p \in eng[r].stored /\ p \in eng[r].readp
                   /\ eng[r].wfiles[p].hash \in DOMAIN objects
        /\ eng[r].pc = "walk" =>
              eng[r].prog.bytes =
                  SumSizes(eng[r].wfiles, {p \in DOMAIN eng[r].wfiles : ~InLatest(r, p)})

\* C16 happens: a run has returned having carried one file forward and stored the other
C16_Witness ==
    \E r \in Runs :
        /\ Returned(r) /\ eng[r].err = "nil"
        /\ \E p, q \in DOMAIN eng[r].wfiles :
              /\ InLatest(r, p) /\ p \notin eng[r].stored
              /\ ~InLatest(r, q) /\ q \in eng[r].stored
              /\ eng[r].prog.bytes = eng[r].wfiles[q].size

\* C17: a store call that finds the object of its content in the store returns that hash and
\* leaves the object store as it was, creating nothing; an object that has been written in
\* full is never written again, so content stored twice is one object under one path
C17_StoreIdempotent ==
    [][\A r \in Runs :
           /\ (eng[r].pc = "store_stat" /\ eng'[r].pc # "store_stat" /\ ~ctxDone[r]
                   /\ eng[r].hash \in DOMAIN objects) =>
                 /\ eng'[r].pc = "post_store"
                 /\ eng'[r].hash = eng[r].hash
                 /\ eng'[r].created = eng[r].created
                 /\ objects' = objects
           /\ \A h \in DOMAIN objects :
                 /\ h \in DOMAIN objects'
                 /\ objects[h].complete => objects'[h] = objects[h]]_vars

\* C17 happens: the second of two files with equal bytes has been stored by a run that
\* created one object, the only one in the store
C17_Witness ==
    \E r \in Runs :
        /\ eng[r].pc = "post_store" /\ eng[r].k = 2 /\ eng[r].stored = Paths
        /\ srcFiles["a.txt"].bytes = srcFiles["b.txt"].bytes
        /\ eng[r].created = 1
        /\ DOMAIN objects = {eng[r].hash} /\ objects[eng[r].hash].complete

-----------------------------------------------------------------------------
(* The StreamingSnapshotWriter on its own, driven as TestStreamingSnapshotWriter *)
(* drives it: NewStreamingSnapshotWriter, AddFile a number of times, Close, and  *)
(* then LoadLatestSnapshot. The writer lives in slot 1 of eng.                   *)

MaxAdds == 3               \* entries added to one writer

\* the snapshot ids a caller passes: the test's time.Now().Format("20060102150405")
\* (memory_test.go:186) and the engine's fmt.Sprintf("%d", time.Now().Unix()) (part_001:185)
WriterIds == {Format14(clock), Digits(clock)}

\* the entries a caller adds
WriterEntries ==
    {[path |-> p, hash |-> SHA256(c), size |-> Len(c), mtime |-> StartTime - 7200] :
        p \in Paths, c \in Contents}

\* writer, err := NewStreamingSnapshotWriter(casDir, snapshotID, ...)
WriterNew ==
    /\ eng[1].pc = "idle"
    /\ \E id \in WriterIds :
        /\ snaps' = NewStreamingSnapshotWriter(snaps, id)
        /\ eng' = [eng EXCEPT ![1] = [IdleEng EXCEPT !.pc = "w_open", !.wid = id, !.wopen = TRUE]]
    /\ last' = NoCall
    /\ UNCHANGED <<objects, ctlVars, envVars, ctxDone>>

\* what a call finds the writer to be: open, closed (Close has succeeded, ssw.closed is
\* set), or failed (Close has closed the file and returned an error, ssw.closed is not set)
WriterState(e) == IF e.wclosed THEN "closed" ELSE IF e.wfclosed THEN "failed" ELSE "open"

\* writer.AddFile(entry): rejected when ssw.closed is set (snapshot.go:230-232), else the
\* entry goes into header.Files and the buffer
WriterAdd ==
    /\ eng[1].pc \in {"w_open", "w_closed"}
    /\ Len(eng[1].added) < MaxAdds
    /\ \E entry \in WriterEntries :
        IF eng[1].wclosed
        THEN /\ last' = [cmd |-> "add", res |-> "rejected", was |-> WriterState(eng[1])]
             /\ UNCHANGED eng
        ELSE /\ last' = [cmd |-> "add", res |-> "nil", was |-> WriterState(eng[1])]
             /\ eng' = [eng EXCEPT ![1] = [AddFile(eng[1], entry) EXCEPT
                                               !.added = Append(@, entry)]]
    /\ UNCHANGED <<fsVars, ctlVars, envVars, ctxDone>>

\* the bufio.Writer is flushed, by the caller or because it is full
WriterFlush ==
    /\ eng[1].pc = "w_open"
    /\ eng[1].wbuf > 0
    /\ snaps' = Flush(snaps, eng[1])
    /\ eng' = [eng EXCEPT ![1] = [@ EXCEPT !.wdisk = @ + eng[1].wbuf, !.wbuf = 0]]
    /\ last' = NoCall
    /\ UNCHANGED <<objects, ctlVars, envVars, ctxDone>>

\* somebody removes <id>.json.tmp under the open writer, so that the os.Rename of Close
\* will fail (snapshot.go:302-306)
WriterLoseTmp ==
    /\ eng[1].pc = "w_open"
    /\ TmpName(eng[1].wid) \in DOMAIN snaps
    /\ snaps' = [n \in DOMAIN snaps \ {TmpName(eng[1].wid)} |-> snaps[n]]
    /\ last' = NoCall
    /\ UNCHANGED <<objects, ctlVars, envVars, ctxDone, eng>>

\* writer.Close(), a first or a further time
WriterClose ==
    /\ eng[1].pc \in {"w_open", "w_closed"}
    /\ LET c == Close(snaps, eng[1]) IN
        /\ snaps' = c.dir
        /\ eng' = [eng EXCEPT ![1] = [c.e EXCEPT !.pc = "w_closed"]]
        /\ last' = [cmd |-> "close", res |-> IF c.err THEN "error" ELSE "nil",
                    was |-> WriterState(eng[1])]
    /\ UNCHANGED <<objects, ctlVars, envVars, ctxDone>>

\* snapshot, err := LoadLatestSnapshot(casDir)
WriterLoad ==
    /\ eng[1].pc = "w_closed"
    /\ LET res == LoadLatestSnapshot(snaps) IN
        eng' = [eng EXCEPT ![1] = [@ EXCEPT !.pc = "w_loaded", !.latest = res.snap,
                                            !.loadErr = res.err]]
    /\ last' = NoCall
    /\ UNCHANGED <<fsVars, ctlVars, envVars, ctxDone>>

NextWriter ==
    WriterNew \/ WriterAdd \/ WriterFlush \/ WriterLoseTmp \/ WriterClose \/ WriterLoad

SpecWriter == InitEngine /\ [][NextWriter]_vars

\* the entry added last for path p among the entries a writer was given
LastAdded(added, p) ==
    LET i == CHOOSE j \in 1..Len(added) :
                 /\ added[j].path = p
                 /\ \A k \in (j + 1)..Len(added) : added[k].path # p
    IN  added[i]

\* C18: after a writer was given entries and closed with success, LoadLatestSnapshot returns without error
\* a snapshot that has the writer's id and whose files are the entries added, one for each
\* distinct path
C18_WriterRoundTrip ==
    (eng[1].pc = "w_loaded" /\ eng[1].wclosed) =>
        /\ ~eng[1].loadErr
        /\ eng[1].latest # <<>>
        /\ eng[1].latest[1].id = eng[1].wid
        /\ DOMAIN eng[1].latest[1].files = {eng[1].added[j].path : j \in 1..Len(eng[1].added)}
        /\ \A p \in DOMAIN eng[1].latest[1].files :
              eng[1].latest[1].files[p] = LastAdded(eng[1].added, p)

-----------------------------------------------------------------------------
(* The engine run over a source tree with a directory in it, with ignore patterns *)

\* the source tree: a file next to node_modules, one in it and one further down
TreeInit ==
    [p \in {"a.txt", "node_modules/x.js", "node_modules/lib/y.js"} |->
        [bytes |-> IF p = "a.txt" THEN <<1>> ELSE IF p = "node_modules/x.js" THEN <<1, 2>> ELSE <<2>>,
         mtime |-> StartTime - 7200, readable |-> TRUE]]

\* "node_modules/", as GetSuggestedIgnorePatterns has it (app.go:207)
DirPattern == NodeModules \o <<"/">>

\* the ignore patterns of a run: none, "node_modules/", "node_modules",
\* "/src/node_modules/", "src/node_module?" and "*.js"
IgnoreSets ==
    { <<>>,
      <<DirPattern>>,
      <<NodeModules>>,
      <<absSourcePath \o <<"/">> \o DirPattern>>,
      <<SrcName \o <<"/">> \o <<"n", "o", "d", "e", "_", "m", "o", "d", "u", "l", "e", "?">>>>,
      <<<<"*", ".", "j", "s">>>> }

\* the destination as it is handed to the engine: outside the source root ("/dst"), or
\* the directory backup in the source root, as an absolute path ("/src/backup") or
\* relative to the working directory /src ("backup")
DestPaths ==
    { <<"/", "d", "s", "t">>,
      absSourcePath \o <<"/", "b", "a", "c", "k", "u", "p">>,
      <<"b", "a", "c", "k", "u", "p">> }

InitIgnore ==
    /\ clock = StartTime
    /\ \/ srcFiles = TreeInit
       \/ srcFiles = [p \in DOMAIN TreeInit \cup {"backup/old.txt"} |->
                         IF p \in DOMAIN TreeInit THEN TreeInit[p]
                         ELSE [bytes |-> <<2, 2>>, mtime |-> StartTime - 7200, readable |-> TRUE]]
    /\ objects = EmptyDir /\ snaps = EmptyDir
    /\ stateFile = <<>>
    /\ eng = [r \in Runs |-> IdleEng]
    /\ ctxDone = [r \in Runs |-> FALSE]
    /\ CtlInit
    /\ hist = [runs |-> 0, events |-> 0, good |-> <<>>]

\* a caller runs the engine once, with ignore patterns and a destination
DirectRunIgnore ==
    /\ hist.runs = 0
    /\ \E b \in BatchSizes : \E ign \in IgnoreSets : \E cas \in DestPaths :
        eng' = [eng EXCEPT ![1] = [IdleEng EXCEPT !.pc = "start", !.batch = b, !.ign = ign,
                                                  !.cas = cas]]
    /\ ctxDone' = [ctxDone EXCEPT ![1] = FALSE]
    /\ hist' = [hist EXCEPT !.runs = 1]
    /\ UNCHANGED <<fsVars, ctlVars, clock, srcFiles, last>>

NextIgnore ==
    \/ DirectRunIgnore \/ CancelCtx
    \/ \E r \in Runs : EngStep(r)

SpecIgnore == InitIgnore /\ [][NextIgnore]_vars

\* nothing of the entry y has got into the backup of run r: no store call, no entry given
\* to the writer, no object of its bytes, no entry in a published manifest
KeptOut(r, y) ==
    /\ y.rel \notin eng[r].stored
    /\ y.rel \notin DOMAIN eng[r].wfiles
    /\ y.rel \in DOMAIN srcFiles => SHA256(srcFiles[y.rel].bytes) \notin DOMAIN objects
    /\ \A n \in JsonNames(snaps) : y.rel \notin DOMAIN snaps[n].files

\* C19: when the matcher excludes a directory the walk has reached, the callback is called
\* for nothing below it, and nothing below it is stored or gets into the manifest
C19_IgnoredDirPruned ==
    \A r \in Runs : \A x \in Entries :
        (eng[r].pc # "idle" /\ x.dir /\ Called(x, eng[r].ign) /\ Ignored(x, eng[r].ign)) =>
            \A y \in Entries :
                Below(y, x) => ~Called(y, eng[r].ign) /\ KeptOut(r, y)

\* C19 happens: a run that pruned node_modules has returned with a.txt in its manifest
C19_Witness ==
    \E r \in Runs : \E x \in Entries :
        /\ Returned(r) /\ eng[r].err = "nil"
        /\ x.rel = "node_modules" /\ Called(x, eng[r].ign) /\ Ignored(x, eng[r].ign)
        /\ JsonName(eng[r].wid) \in DOMAIN snaps
        /\ DOMAIN snaps[JsonName(eng[r].wid)].files = {"a.txt"}

\* C20: with the pattern "node_modules/" the matcher excludes the directory node_modules
\* under the source root itself, the callback is called for nothing below it, and nothing
\* below it is stored or gets into the manifest
C20_TrailingSlashPrunes ==
    \A r \in Runs : \A x \in Entries :
        (eng[r].pc # "idle" /\ eng[r].ign = <<DirPattern>> /\ x.rel = "node_modules") =>
            /\ Ignored(x, eng[r].ign)
            /\ \A y \in Entries :
                  Below(y, x) => ~Called(y, eng[r].ign) /\ KeptOut(r, y)

\* C21: when the destination handed to the engine is a directory in the source root, as an
\* absolute or as a relative path, no file that lies in it is passed to the store, stored as
\* an object or recorded in a manifest
C21_DestinationExcluded ==
    \A r \in Runs : \A d \in Entries : \A y \in Entries :
        (eng[r].pc # "idle" /\ eng[r].cas # <<"/", "d", "s", "t">> /\ d.rel = "backup" /\ Below(y, d)) =>
            KeptOut(r, y)

\* C22: on every destination LoadLatestSnapshot returns no snapshot when snapshots/ holds no
\* name <YYYYMMDDhhmmss>.json, and otherwise answers with the file whose id is the greatest
\* of these names in lexicographic order (its manifest, or an error when it is damaged),
\* whatever .json.tmp files and names that do not parse lie beside it
C22_LatestIsMaximum ==
    LET valid == {n \in DOMAIN snaps : n.ext = "json" /\ ParseOK(n.id)}
        res   == LoadLatestSnapshot(snaps)
    IN  IF valid = {} THEN ~res.err /\ res.snap = <<>>
        ELSE \E n \in valid :
                /\ \A m \in valid \ {n} : TupleAfter(n.id, m.id, 1)
                /\ IF snaps[n].kind = "manifest"
                   THEN ~res.err /\ res.snap = <<[id |-> n.id, files |-> snaps[n].files]>>
                   ELSE res.err /\ res.snap = <<>>

\* C22 happens: a writer's snapshot was loaded as the later of two with parseable names
C22_Witness ==
    /\ eng[1].pc = "w_loaded" /\ eng[1].latest # <<>> /\ eng[1].latest[1].id = eng[1].wid
    /\ Cardinality({n \in DOMAIN snaps : n.ext = "json" /\ ParseOK(n.id)}) = 2

\* C23: a Close of a writer on which Close was called before, with success or with an
\* error, returns nil and leaves the snapshots directory as it is; an AddFile after a Close
\* is rejected and adds nothing
C23_SecondCloseNoOp ==
    [][/\ (last'.cmd = "close" /\ last'.was \in {"closed", "failed"}) =>
              last'.res = "nil" /\ snaps' = snaps
       /\ (last'.cmd = "add" /\ last'.was \in {"closed", "failed"}) =>
              last'.res = "rejected" /\ eng'[1].wfiles = eng[1].wfiles]_vars

\* C24: whenever a writer was opened for an id, a file snapshots/<id>.json that exists
\* holds a complete manifest: lines in the making are only ever seen under <id>.json.tmp
C24_CanonicalComplete ==
    \A r \in Runs : \A n \in DOMAIN snaps :
        (eng[r].wopen /\ n.id = eng[r].wid /\ n.ext = "json") => snaps[n].kind = "manifest"

C26_ResumeAfterProbe ==
    /\ (last.cmd = "resume" /\ ctl.cmds = 1 /\ last.was \in {"running", "paused"}) =>
            /\ last.res = "nil"
            /\ Status = "running"
            /\ \E r \in Runs : eng[r].by = "resume" /\ eng[r].pc = "r_enter"
    /\ (backupState # <<>> /\ mutex = "free" /\ \A r \in Runs : eng[r].pc = "idle") =>
            \/ Status \notin {"running", "paused"}
            \/ Status = "running" /\ backupCancel # 0
            \/ Status \in {"paused", "stopped"}

\* C27: a run that returned without error has published its manifest under an id later (as
\* a number) than that of every manifest that was there when it started, and no step
\* changes or removes a published snapshots/<id>.json
C27_FreshIdNoOverwrite ==
    /\ [](\A r \in Runs : (Returned(r) /\ eng[r].err = "nil") =>
             \A m \in eng[r].before :
                 \/ Len(eng[r].wid) > Len(m.id)
                 \/ Len(eng[r].wid) = Len(m.id) /\ TupleAfter(eng[r].wid, m.id, 1))
    /\ [][\A n \in JsonNames(snaps) : n \in DOMAIN snaps' /\ snaps'[n] = snaps[n]]_vars

-----------------------------------------------------------------------------
(* GetBackupState, checked under SpecState: the controller with the UI reading *)
(* the backup state while a backup runs                                        *)

\* stateCopy := *a.backupState: the fields of the struct by value; of ProcessedFiles, a Go
\* map, the copy holds the reference to the map of the backup state
StructCopy(state) == [state EXCEPT !.ProcessedFiles = "map of backupState"]

\* what reading or serializing a copy finds: its own fields, and in ProcessedFiles the
\* entries the map of the backup state has at that moment. (The UI drops the copy with its
\* next command, and only commands and the probe replace the backup state with its map.)
ReadCopy(c) ==
    [c EXCEPT !.ProcessedFiles = IF backupState # <<>> THEN backupState[1].ProcessedFiles ELSE {}]

\* GetBackupState: nil, or a copy of the struct, taken under the read lock
GetBackupState ==
    /\ mutex = "free"
    /\ ctl.cmds < MaxCmds
    /\ Call("get_state", IF backupState = <<>> THEN "nil" ELSE "copy")
    /\ ctl' = [ctl EXCEPT !.cmds = ctl.cmds + 1,
                          !.got = IF backupState = <<>> THEN <<>>
                                  ELSE <<StructCopy(backupState[1])>>]
    /\ UNCHANGED <<fsVars, envVars, eventQueue, eng, ctxDone, backupState, backupCancel, mutex,
                   stateFile>>

NextState == Next \/ GetBackupState

SpecState == Init /\ [][NextState]_vars

\* C28: what the UI reads in a state it got from GetBackupState stays what it was when the
\* call returned, whatever the engine reports afterwards
C28_StateCopyIndependent ==
    [][(ctl.got # <<>> /\ ctl'.got = ctl.got) =>
            ReadCopy(ctl.got[1])' = ReadCopy(ctl.got[1])]_vars

-----------------------------------------------------------------------------
(* The event queue, checked under SpecEvents: the goroutines that emit and the *)
(* emitter goroutine that delivers to the UI                                   *)

MaxEmits == 6

\* status events the commands and the run task emit (app.go:424, 581, 729)
StatusEvents == {"Running", "Stopped", "Completed"}

\* a call of emitEvent by whoever emits ev; it returns in this one step
Emit(ev) ==
    /\ hist.events < MaxEmits
    /\ eventQueue' = emitEvent(eventQueue, ev)
    /\ hist' = [hist EXCEPT !.events = hist.events + 1]
    /\ last' = [cmd |-> "emitEvent", res |-> IF Len(eventQueue.q) < QueueSize THEN "queued" ELSE "dropped",
                was |-> ev.data]
    /\ UNCHANGED <<fsVars, clock, srcFiles, eng, ctxDone, backupState, backupCancel, mutex, ctl,
                   stateFile>>

\* the goroutine progressCb starts for every progress report (app.go:521-539)
EmitProgress == Emit(Event("app:backup:progress", "progress"))

\* a command or the run task reports a change of status
EmitStatus == \E s \in StatusEvents : Emit(Event("app:backup:status", s))

\* one round of the loop of eventEmitter: the oldest event is taken and handed to the UI
eventEmitter ==
    /\ eventQueue.q # <<>>
    /\ eventQueue' = [eventQueue EXCEPT !.q = Tail(@), !.seen = @ \cup {eventQueue.q[1]}]
    /\ last' = NoCall
    /\ UNCHANGED <<fsVars, envVars, eng, ctxDone, backupState, backupCancel, mutex, ctl, stateFile>>

NextEvents == EmitProgress \/ EmitStatus \/ eventEmitter

SpecEvents == Init /\ [][NextEvents]_vars

\* the emitter goroutine loops for as long as the application lives
SpecEventsFair == SpecEvents /\ WF_vars(eventEmitter)

\* C29: emitEvent can always be called and returns at once, whether the queue is full or
\* not; with a full queue the event is dropped and the queue is left as it is, otherwise the
\* event is queued behind the others
C29_EmitNeverBlocks ==
    /\ [](hist.events < MaxEmits => ENABLED EmitProgress /\ ENABLED EmitStatus)
    /\ [][last'.cmd = "emitEvent" =>
            IF Len(eventQueue.q) = QueueSize
            THEN /\ eventQueue'.q = eventQueue.q /\ eventQueue'.seen = eventQueue.seen
                 /\ last'.res = "dropped"
            ELSE /\ Len(eventQueue'.q) = Len(eventQueue.q) + 1
                 /\ eventQueue'.q[Len(eventQueue'.q)].data = last'.was
                 /\ eventQueue'.lost = eventQueue.lost]_vars

C29_Witness ==
    /\ last.cmd = "emitEvent" /\ last.res = "dropped"
    /\ Len(eventQueue.q) = QueueSize /\ eventQueue.lost # {}

\* C30: every status event that was emitted is delivered to the UI in the end, also one
\* emitted while the queue was full of progress events
C30_StatusDelivered ==
    \A s \in StatusEvents :
        LET ev == Event("app:backup:status", s) IN
        (ev \in eventQueue.lost \/ \E i \in 1..Len(eventQueue.q) : eventQueue.q[i] = ev)
            ~> (ev \in eventQueue.seen)

-----------------------------------------------------------------------------
(* The batch configuration, checked under SpecBatch: one engine run with a    *)
(* BatchConfig of its own (RunBackupWithBatchConfig, memory_test.go:64-123)    *)

MaxTicks == 2

\* the caller passes a BatchConfig: BatchSize, a FlushInterval of one second, and a
\* MemoryLimit that the allocation of the process exceeds or not
DirectRunBatch ==
    /\ hist.runs = 0
    /\ \E b \in BatchSizes : \E m \in BOOLEAN :
        eng' = [eng EXCEPT ![1] = [IdleEng EXCEPT !.pc = "start", !.batch = b,
                                                  !.flushInterval = 1, !.memHigh = m]]
    /\ ctxDone' = [ctxDone EXCEPT ![1] = FALSE]
    /\ hist' = [hist EXCEPT !.runs = 1]
    /\ UNCHANGED <<fsVars, ctlVars, clock, srcFiles, last>>

\* a second passes while the engine works
TickBatch ==
    /\ hist.events < MaxTicks
    /\ clock' = clock + 1
    /\ hist' = [hist EXCEPT !.events = hist.events + 1]
    /\ UNCHANGED <<fsVars, ctlVars, srcFiles, eng, ctxDone, last>>

NextBatch ==
    \/ DirectRunBatch \/ TickBatch \/ CancelCtx
    \/ \E r \in Runs : EngStep(r)

SpecBatch == InitEngine /\ [][NextBatch]_vars

\* C31: while a run has its writer open, no more than BatchSize entries were added since
\* the last flush, entries wait in the buffer no longer than FlushInterval (unless the
\* flush is the engine's next step), and after a memory check that found the allocation over the limit no entry is left in the buffer
C31_FlushPolicy ==
    \A r \in Runs :
        (Active(r) /\ eng[r].wopen /\ ~eng[r].wfclosed) =>
            /\ eng[r].batchCount <= eng[r].batch
            /\ (eng[r].wbuf > 0 /\ eng[r].pc # "flush_chk") =>
                    clock - eng[r].lastFlushTime <= eng[r].flushInterval
            /\ (eng[r].memHigh /\ eng[r].pc = "cmp") => eng[r].wbuf = 0

\* C32: the entries an open writer holds in memory, in its buffer and in header.Files, are
\* never more than the flush threshold BatchSize
C32_WriterMemoryBounded ==
    \A r \in Runs :
        (Active(r) /\ eng[r].wopen /\ ~eng[r].wfclosed) =>
            /\ eng[r].wbuf <= eng[r].batch
            /\ Cardinality(DOMAIN eng[r].wfiles) <= eng[r].batch

-----------------------------------------------------------------------------
(* copyWithContext, buffer by buffer, beside an engine run *)

MaxChunks == 3             \* 32 KiB buffers that the source of a copy fills

\* io.Copy: the same loop without the context checks
ioCopy(r) ==
    /\ LET e == eng[r]
           c == IF ctxDone[r] THEN 1 ELSE 0 IN
       \/ /\ e.pc = "c_check" /\ Set(r, [e EXCEPT !.pc = "c_read"])
       \/ /\ e.pc = "c_read"
          /\ Set(r, IF e.nread < e.chunks
                    THEN [e EXCEPT !.pc = "c_check2", !.nread = @ + 1, !.rdAfter = @ + c]
                    ELSE [e EXCEPT !.pc = "done", !.err = "nil", !.rdAfter = @ + c])
       \/ /\ e.pc = "c_check2" /\ Set(r, [e EXCEPT !.pc = "c_write"])
       \/ /\ e.pc = "c_write"
          /\ Set(r, [e EXCEPT !.pc = "c_check", !.written = @ + 1, !.wrAfter = @ + c])
    /\ UNCHANGED <<fsVars, ctlVars, envVars, ctxDone>>

\* memory_test.go:418-464: one step of the loop of copyWithContext: the context check
\* before the read, the read (a full buffer, or EOF, which ends the copy), the context
\* check before the write, the write. rdAfter and wrAfter count the reads and the writes
\* made while the context was already cancelled
copyWithContext(r) ==
    /\ LET e == eng[r]
           c == IF ctxDone[r] THEN 1 ELSE 0 IN
       \/ /\ e.pc = "c_check"
          /\ Set(r, IF ctxDone[r] THEN [e EXCEPT !.pc = "done", !.err = "Canceled"]
                                  ELSE [e EXCEPT !.pc = "c_read"])
       \/ /\ e.pc = "c_read"
          /\ Set(r, IF e.nread < e.chunks
                    THEN [e EXCEPT !.pc = "c_check2", !.nread = @ + 1, !.rdAfter = @ + c]
                    ELSE [e EXCEPT !.pc = "done", !.err = "nil", !.rdAfter = @ + c])
       \/ /\ e.pc = "c_check2"
          /\ Set(r, IF ctxDone[r] THEN [e EXCEPT !.pc = "done", !.err = "Canceled"]
                                  ELSE [e EXCEPT !.pc = "c_write"])
       \/ /\ e.pc = "c_write"
          /\ Set(r, [e EXCEPT !.pc = "c_check", !.written = @ + 1, !.wrAfter = @ + c])
    /\ UNCHANGED <<fsVars, ctlVars, envVars, ctxDone>>

\* a caller copies a source of n buffers with a context of its own (task 2), while the
\* engine runs as task 1
CopyStart ==
    /\ eng[2].pc = "idle"
    /\ \E n \in 0..MaxChunks :
        eng' = [eng EXCEPT ![2] = [IdleEng EXCEPT !.pc = "c_check", !.chunks = n]]
    /\ UNCHANGED <<fsVars, ctlVars, envVars, ctxDone, last>>

SpecCopy ==
    InitEngine /\ [][DirectRunBatch \/ CopyStart \/ CancelCtx \/ EngStep(1)
                     \/ copyWithContext(2)]_vars

-----------------------------------------------------------------------------
(* The progress events of one run, checked under SpecProgress *)

MaxPending == 2            \* reports of a run that are not yet delivered at one time

\* the run task calls the engine with progressCb
RunProgress ==
    /\ hist.runs = 0
    /\ eng' = [eng EXCEPT ![1] = [IdleEng EXCEPT !.pc = "start", !.cb = "ui"]]
    /\ hist' = [hist EXCEPT !.runs = 1]
    /\ UNCHANGED <<fsVars, ctlVars, clock, srcFiles, ctxDone, last>>

\* app.go:521-539: one of the goroutines that progressCb started runs: it emits the log
\* line of a report whose status is not "Processing file", then the progress event
GoEmit(r) ==
    /\ \E g \in eng[r].goEmit :
        LET q1 == IF g.status # "Processing file"
                  THEN emitEvent(eventQueue, Event("app:log", g)) ELSE eventQueue IN
        /\ eventQueue' = emitEvent(q1, Event("app:backup:progress", g))
        /\ Set(r, [eng[r] EXCEPT !.goEmit = @ \ {g}])
    /\ UNCHANGED <<fsVars, envVars, ctxDone, backupState, backupCancel, mutex, ctl, stateFile>>

\* the engine goes on while fewer than MaxPending goroutines and queued events wait
SpecProgress ==
    InitEngine /\ [][\/ RunProgress
                     \/ /\ Cardinality(eng[1].goEmit) + Len(eventQueue.q) < MaxPending
                        /\ EngStep(1)
                     \/ CancelCtx
                     \/ GoEmit(1)
                     \/ eventEmitter]_vars

\* the progress events the UI has received
SeenProgress == {ev \in eventQueue.seen : ev.name = "app:backup:progress"}

\* C34: the UI receives the progress events of a run in the order in which the engine
\* reported them; files_processed goes down only by the one decrement for an unchanged
\* entry and never exceeds total_files
C34_ProgressOrdered ==
    /\ [](/\ eng[1].prog.processed <= eng[1].prog.total
          /\ \A ev \in SeenProgress : ev.data.processed <= ev.data.total)
    /\ [][/\ \/ eng'[1].prog.processed >= eng[1].prog.processed
             \/ eng'[1].pc = "idle"
             \/ /\ eng'[1].prog.processed = eng[1].prog.processed - 1
                /\ eng[1].pc = "cmp" /\ ~eng'[1].changed
          /\ \A new \in SeenProgress' \ SeenProgress :
                \A old \in SeenProgress : old.data.n < new.data.n]_vars

-----------------------------------------------------------------------------
(* Claims about the object store after interrupted stores, checked under SpecEngine *)

\* C35: when no store is under way every object under objects/ holds the bytes whose
\* SHA-256 is its name, also after stores that were cancelled or failed while copying and
\* after the source changed between the hashing pass and the copy; a store never returns
\* a hash whose object holds other bytes
C35_ObjectIntegrity ==
    /\ (\A r \in Runs : ~Active(r)) =>
            \A h \in DOMAIN objects : SHA256(objects[h].bytes) = h
    /\ \A r \in Runs :
            (eng[r].pc = "post_store" /\ eng[r].hash \in DOMAIN objects) =>
                SHA256(objects[eng[r].hash].bytes) = eng[r].hash

-----------------------------------------------------------------------------
(* A run over two source roots, checked under SpecRoots *)

\* a caller runs the engine with sourcePaths of two roots
DirectRunRoots ==
    /\ hist.runs = 0
    /\ eng' = [eng EXCEPT ![1] = [IdleEng EXCEPT !.pc = "start", !.roots = 2]]
    /\ hist' = [hist EXCEPT !.runs = 1]
    /\ UNCHANGED <<fsVars, ctlVars, clock, srcFiles, ctxDone, last>>

SpecRoots == InitEngine /\ [][DirectRunRoots \/ CancelCtx \/ EngStep(1)]_vars

\* C36: the manifest of a successful run over two roots has an entry of its own, with the
\* hash of its own bytes, for every file of either root: files with the same relative
\* path do not replace one another and no hash of the other root's file is carried forward
C36_EntryPerRootFile ==
    \A r \in Runs :
        (Returned(r) /\ eng[r].err = "nil" /\ eng[r].roots = 2
                     /\ JsonName(eng[r].wid) \in DOMAIN snaps
                     /\ snaps[JsonName(eng[r].wid)].kind = "manifest") =>
            LET f == snaps[JsonName(eng[r].wid)].files IN
            /\ Cardinality(DOMAIN f) = 2 * Cardinality(Paths)
            /\ \A p \in Paths :
                /\ \E q \in DOMAIN f : f[q].hash = SHA256(srcFiles[p].bytes)
                /\ \E q \in DOMAIN f : f[q].hash = SHA256(SecondRoot[p].bytes)

-----------------------------------------------------------------------------
(* Claims about the mutex and the end of a run task, checked under Spec *)

\* C37: no command and no run task waits for ever: the mutex is free between the steps,
\* the final update of a run task does not stop inside saveBackupState, and no call of a
\* command is left blocked in Lock
C37_NothingBlocksForever ==
    /\ mutex = "free"
    /\ \A r \in Runs : eng[r].pc # "r_dead" /\ ~Stuck(r)
    /\ last.res # "blocked in Lock"

\* C38: when the only run task has ended, or can go no further, without a pause, stop or
\* restart having cancelled it, and the startup probe has restored nothing, the status is
\* not running and a start called then is not turned away
C38_EndedRunNotRunning ==
    \A r \in Runs :
        (/\ eng[r].pc \in {"r_end", "r_dead"} /\ eng[r].hit = "none"
         /\ ~ctl.probed
         /\ \A q \in Runs \ {r} : eng[q].pc = "idle") =>
            /\ Status # "running"
            /\ ~(last.cmd = "start" /\ last.res \in {"Already Running", "blocked in Lock"})

\* C39: the final update and the deferred cleanup of a run task whose context was
\* cancelled, made when another task's cancel function is the one stored, leave the status
\* of the backup state and the stored cancel function as they are
C39_OldRunLeavesNewRunAlone ==
    [][\A r \in Runs :
          (/\ eng[r].pc \in {"r_final", "r_defer"} /\ eng'[r].pc # eng[r].pc
           /\ ctxDone[r]
           /\ backupCancel \notin {0, r}) =>
                /\ backupCancel' = backupCancel
                /\ Status' = Status]_vars

-----------------------------------------------------------------------------
(* SmartDeploy of a snapshot that the engine produced, checked under SpecDeploy. *)
(* Paths are sequences of their components; the destination of the backup is     *)
(* <<"dst">>.                                                                    *)

\* the hex string of a hash, of which the model keeps four or five digits
Hex(h) == <<0, 0, 0>> \o Tail(h)

\* memory_test.go:314-323: objects/<hash[0:2]>/<hash[2:4]>/<hash> below casBaseDir
getObjectPath(casBaseDir, hash) ==
    IF Len(hash) < 4 THEN casBaseDir \o <<"objects", hash>>
    ELSE casBaseDir \o <<"objects", SubSeq(hash, 1, 2), SubSeq(hash, 3, 4), hash>>

\* deploy.go:232: filepath.Join(config.CASBaseDir, fileEntry.Hash[:2], fileEntry.Hash)
sourcePath(casBaseDir, hash) == casBaseDir \o <<SubSeq(hash, 1, 2), hash>>

\* the path is that of an object which the store of the backup wrote
IsObjectFile(path) == \E h \in DOMAIN objects : getObjectPath(<<"dst">>, Hex(h)) = path

\* the object at the path (a hard link to it and a copy of it have the same bytes)
ObjectAt(path) ==
    objects[CHOOSE h \in DOMAIN objects : getObjectPath(<<"dst">>, Hex(h)) = path]

\* deploy.go:161-192: the target file is missing, or differs in size or in hash
needsFileCopy(target, p, fileEntry) ==
    ~(/\ p \in DOMAIN target
      /\ Len(target[p]) = fileEntry.size
      /\ SHA256(target[p]) = fileEntry.hash)

\* the targets a user deploys into: an empty directory, the files of an earlier
\* deployment, a file of the size of the source's with other bytes
Targets == {<<>>, [p \in Paths |-> SrcInit[p].bytes], [p \in {"a.txt"} |-> <<2>>]}

\* a user deploys the snapshot of the engine run that has returned without error (task 2),
\* giving the destination of the backup, or its objects directory, as CASBaseDir
DeployStart ==
    /\ eng[2].pc = "idle"
    /\ Returned(1) /\ eng[1].err = "nil" /\ JsonName(eng[1].wid) \in DOMAIN snaps
    /\ \E cas \in {<<"dst">>, <<"dst", "objects">>} : \E links \in BOOLEAN :
       \E ign \in {{}, {"b.txt"}} : \E t \in Targets :
        eng' = [eng EXCEPT ![2] = [IdleEng EXCEPT
                   !.pc = "d_load", !.wid = eng[1].wid, !.target = t,
                   !.dcfg = [CASBaseDir |-> cas, UseHardLinks |-> links, IgnorePatterns |-> ign]]]
    /\ UNCHANGED <<fsVars, ctlVars, envVars, ctxDone, last>>

\* deploy.go:36-159 with needsFileCopy, deployFile and copyFilePreservingAttributes: the
\* snapshot is loaded and the files that shouldIgnorePath lets through are planned; then,
\* one file of the plan at a step, in the order of the map: context check, needsFileCopy,
\* and for a file that needs it deployFile, whose os.Stat and os.Open of sourcePath fail
\* when no object is there
SmartDeploy(r) ==
    /\ LET e  == eng[r]
           sf == snaps[JsonName(e.wid)] IN
       \/ /\ e.pc = "d_load"
          /\ Set(r, IF sf.kind # "manifest"
                    THEN [e EXCEPT !.pc = "done", !.err = "wrapped(load)"]
                    ELSE [e EXCEPT !.pc = "d_files", !.latest = <<sf>>,
                                   !.todo = DOMAIN sf.files \ e.dcfg.IgnorePatterns])
       \/ /\ e.pc = "d_files" /\ ctxDone[r]
          /\ Set(r, [e EXCEPT !.pc = "done", !.err = "Canceled"])
       \/ /\ e.pc = "d_files" /\ ~ctxDone[r] /\ e.todo = {}
          /\ Set(r, [e EXCEPT !.pc = "done", !.err = "nil"])
       \/ /\ e.pc = "d_files" /\ ~ctxDone[r]
          /\ \E p \in e.todo :
              LET fileEntry == e.latest[1].files[p]
                  src == sourcePath(e.dcfg.CASBaseDir, Hex(fileEntry.hash))
              IN  Set(r, IF ~needsFileCopy(e.target, p, fileEntry)
                         THEN [e EXCEPT !.todo = @ \ {p}]
                         ELSE IF IsObjectFile(src)
                         THEN [e EXCEPT !.todo = @ \ {p}, !.opened = src,
                                        !.target = (p :> ObjectAt(src).bytes) @@ @]
                         ELSE [e EXCEPT !.pc = "done", !.opened = src,
                                        !.err = "wrapped(open)"])
    /\ UNCHANGED <<fsVars, ctlVars, envVars, ctxDone>>

SpecDeploy ==
    InitEngine /\ [][DirectRunBatch \/ CancelCtx \/ EngStep(1) \/ DeployStart
                     \/ SmartDeploy(2)]_vars

\* C40: after a SmartDeploy of an engine snapshot that returned without error every file of
\* the snapshot that is not ignored is in the target with the hash of its entry; the path
\* at which deployFile looks for an object is the path at which the store wrote it; a
\* target file with the size and hash of its entry is left as it is
C40_DeployMatchesSnapshot ==
    /\ [](LET e == eng[2] IN
          /\ (e.pc = "done" /\ e.err = "nil" /\ e.latest # <<>>) =>
                \A p \in DOMAIN e.latest[1].files \ e.dcfg.IgnorePatterns :
                    /\ p \in DOMAIN e.target
                    /\ SHA256(e.target[p]) = e.latest[1].files[p].hash
          /\ e.opened # <<>> => IsObjectFile(e.opened))
    /\ [][\A p \in DOMAIN eng[2].target :
            (eng[2].pc = "d_files"
                /\ p \in DOMAIN eng[2].latest[1].files
                /\ ~needsFileCopy(eng[2].target, p, eng[2].latest[1].files[p])) =>
                    eng'[2].target[p] = eng[2].target[p]]_vars

====
